---- MODULE Spec2Model ----
(***************************************************************************)
(* A model of noscli, a terminal Nostr client.                             *)
(*                                                                         *)
(*   - the event collections of the UI model (pkg/tui/model.go): the       *)
(*     eventsMsg / dmsMsg / notificationsMsg handlers of Model.Update      *)
(*     (specification SpecMerge);                                          *)
(*   - the fetch commands fetchEventsCmd and fetchThreadCmd, from the      *)
(*     relays' deliveries to the result message and its handling by        *)
(*     Model.Update (specification SpecFetch);                             *)
(*   - the publish commands publishPostCmd and repostCmd, from signing to  *)
(*     the result message (specification SpecPublish);                     *)
(*   - NWCClient.PayInvoice, the wallet request/response exchange          *)
(*     (specification SpecPay, and FairSpecPay with the fairness of the    *)
(*     clock, of the goroutine and of Go's select);                        *)
(*   - ParseNWCString and NewNWCClient on connection strings               *)
(*     (specification SpecParse);                                          *)
(*   - publishDMCmd, from the choice of the envelope to the result         *)
(*     message (specification SpecDM);                                     *)
(*   - updateContent and renderEvent on a collection of direct messages    *)
(*     (specification SpecRender);                                         *)
(*   - the user profile cache, written by the profilesMsg handler and by   *)
(*     the fetchSingleProfile goroutines (specification SpecCache);        *)
(*   - the life of a command, fetchFollowingCmd or publishQuoteCmd, from   *)
(*     its start to the message Model.Update gets (specification SpecCmd,  *)
(*     and FairSpecCmd with the closing of the command's channels);        *)
(*   - the session of the timeline: the keys of the normal, thread and     *)
(*     composing modes and the messages of the commands they start, as     *)
(*     Model.Update handles them (specification SpecSession);              *)
(*   - the same session from the connecting state on, with the answer of   *)
(*     the connect command (specification SpecConnect);                    *)
(*   - the keys of the settings screen that edit the relay list            *)
(*     (specification SpecSettings);                                       *)
(*   - the tags publishPostCmd gives the notes of a conversation           *)
(*     (specification SpecReply);                                          *)
(*   - fetchFollowingCmd on relays that answer with different contact      *)
(*     lists (specification SpecFollow).                                   *)
(*                                                                         *)
(* Events are records; the id of an event is the hash of its other fields, *)
(* so the fields of an event are a function of its id (EventOf).           *)
(***************************************************************************)
EXTENDS Integers, Sequences, FiniteSets, TLC

\* ------------------------------------------------------------------ bounds

\* Number of distinct event ids the relays can serve.
MaxId == 3
\* Longest event list one result message carries.
MaxIncoming == 2
\* Most items the relays put on the channel of one subscription.
MaxDeliveries == 2
\* longest tag list of a wallet-relay event
MaxTags == 2
\* most items PayInvoice takes off responseChan
MaxEvents == 2
\* the clock stops here
MaxTime == 5
\* most key=value pairs in the query of a connection string
MaxQuery == 2
\* most events in the rendered collection
MaxView == 2
\* most fetchSingleProfile goroutines running for one pubkey
MaxGoroutines == 2
\* most commands issued one after the other
MaxCommands == 2
\* most commands of the session running at the same time
MaxRunning == 1
\* greatest number of events a page key moves the cursor by
MaxStep == 2
\* most relays in the relay list of the settings screen
MaxRelays == 4
\* most characters typed into the input of a new relay
MaxInput == 2
\* most notes of a conversation
MaxPosts == 4
\* most thread fetches of the session running at the same time
MaxThreads == 2

\* ------------------------------------------------------------------ events

EventIds == 1..MaxId

\* nostr.Event.CreatedAt of the event with the given id: ids 2 and 3 share a
\* timestamp, so collections hold ties.
CreatedAtOf(id) == id \div 2

\* nostr.Event, reduced to the fields the merge reads.
EventOf(id) == [ID |-> id, CreatedAt |-> CreatedAtOf(id)]

AllEvents == {EventOf(id) : id \in EventIds}

\* The event lists a result message (eventsMsg.events, ...) can carry: any
\* order, repetitions included.
IncomingLists == UNION {[1..n -> AllEvents] : n \in 0..MaxIncoming}

VARIABLES
    events,         \* Model.events: timeline
    dms,            \* Model.dms
    notifications,  \* Model.notifications
    lastEventTime,  \* Model.lastEventTime
    lastDMTime,     \* Model.lastDMTime
    lastNotifTime,  \* Model.lastNotifTime
    statusMsg,      \* Model.statusMsg
    threadEvents,   \* Model.threadEvents
    inbox,          \* result messages of commands, not yet handled by Update
    fPc,            \* fetch command: "idle", "receiving", "done"
    fKind,          \* which fetch command runs: "events" or "thread"
    relayState,     \* per relay of the subscription: "broken", "open", "eose"
    fSent,          \* what the relays have put on the channel, in order
    fEvents,        \* the command's local slice `events`
    pPc,            \* publish command: "idle", "collecting", "done", "notsigned"
    pKind,          \* which publish command runs: "post" or "repost"
    pOutcome,       \* per relay: what its publish task ends with
    pPending,       \* relays whose result is not yet on the results channel
    pResults,       \* the results the command has taken off the channel, in order
    successCount,   \* the command's local successCount
    lastErr,        \* the command's local lastErr
    pc,             \* PayInvoice: "start", "subscribe", "sleeping", "waiting", "received", "done"
    now,            \* the clock, counted from the call of context.WithTimeout
    deadline,       \* the deadline of PayInvoice's ctx
    parentDone,     \* the caller's context has been cancelled
    subTime,        \* when pool.SubMany was called (NoTime before)
    pubTime,        \* when pool.PublishMany was called (NoTime before)
    published,      \* PayInvoice's local `published`
    chClosed,       \* responseChan has been closed by the pool
    event,          \* the item received from responseChan (the zero value outside the case)
    eventCount,     \* PayInvoice's local eventCount
    result,         \* what PayInvoice returned (Pending while it runs)
    secret,         \* c.secret, the secret the client was built with
    publishCalls,   \* how often PayInvoice has called pool.PublishMany
    uri,            \* the connection string handed to the nwc package
    parseOut,       \* what ParseNWCString(uri) returned (NotCalled before)
    clientOut,      \* what NewNWCClient(uri) returned (NotCalled before)
    dPc,            \* publishDMCmd: "idle", "built", "sentFirst", "sentAll", "done"
    dArgs,          \* its arguments authMethod, privKey, recipientPubKey, content
    dWraps,         \* the envelopes it has built and not yet published
    dSent,          \* the events it has handed to pool.PublishMany, in order
    dSuccessCount,  \* its local successCount
    dLastErr,       \* its local lastErr
    dAcked,         \* for each envelope published, the relays that accepted it
    viewer,         \* Model.authMethod, Model.privKey and whether Pleb Signer answers
    viewEvents,     \* the collection updateContent renders (currentEvents)
    rendered,       \* displayContent of each of its events, in order
    userCache,      \* Model.userCache: pubkey -> display name ("absent": no entry)
    uiPc,           \* what the update loop is doing: "idle", "update" (profilesMsg), "render"
    uiArg,          \* the profiles of the profilesMsg, or the pubkey mentioned in the content
    goroutines,     \* running fetchSingleProfile goroutines per pubkey
    crashed,        \* the runtime ended the process (concurrent map access)
    cmd,            \* the running tea.Cmd: which one, its position and its locals
    cmdMsg,         \* the tea.Msg it returned
    delivered,      \* the messages handed to Update, in order
    cmdCrashed,     \* a panic left a command's goroutine
    state,          \* Model.state: "loadingFollows", "timeline", "composing", "thread", "error"
    currentView,    \* Model.currentView: "following", "dms", "notifications"
    cursor,         \* Model.cursor (counted from 0)
    composing,      \* Model.composing: "post", "reply", "quote", "dm"
    replyingTo,     \* Model.replyingTo (NilEvent: nil)
    threadRoot,     \* Model.threadRoot (NilEvent: nil)
    running,        \* the commands Update has returned and that have not yet answered
    lastMsg,        \* the message the latest call of Update handled
    lastCmd,        \* the commands that call returned (empty: nil)
    panicked,       \* Update panicked (index out of range)
    authMethod,     \* Model.authMethod: "nsec" (Model.privKey is set) or "pleb_signer"
    threadFetches,  \* the ids of the roots whose fetchThreadCmd has not yet answered
    pubKey,         \* Model.pubKey ("": not yet authenticated)
    relays,         \* Model.relays, each relay a sequence of typed pieces
    settingsMenu,   \* Model.settingsMenu: 0 (authentication) or 1 (relays)
    settingsCursor, \* Model.settingsCursor (counted from 0)
    editingRelay,   \* Model.editingRelay
    newRelayInput,  \* Model.newRelayInput, a sequence of characters
    settingsKey,    \* the key the latest call of Update handled on the settings screen
    prevRelays,     \* Model.relays before that call
    posts,          \* the notes composed with publishPostCmd, oldest first
    contactLists,   \* what each relay answers to the kind-3 filter of fetchFollowingCmd
    undelivered,    \* the relays whose answer has not come out of the events channel
    followPc,       \* fetchFollowingCmd: "idle", "running", "returned"
    followed,       \* its local following (<<>>: nil)
    followFrom      \* the relay whose contact list it took ("none": none)

mergeVars == <<events, dms, notifications, lastEventTime, lastDMTime,
               lastNotifTime, statusMsg>>
fetchVars == <<inbox, fPc, fKind, relayState, fSent, fEvents>>

pubVars == <<pPc, pKind, pOutcome, pPending, pResults, successCount, lastErr>>

payVars == <<pc, now, deadline, parentDone, subTime, pubTime, published,
             chClosed, event, eventCount, result, secret, publishCalls>>

parseVars == <<uri, parseOut, clientOut>>

\* the variables of the nwc package outside PayInvoice and of publishDMCmd
dmVars == <<dPc, dArgs, dWraps, dSent, dSuccessCount, dLastErr, dAcked>>

renderVars == <<viewer, viewEvents, rendered>>

cacheVars == <<userCache, uiPc, uiArg, goroutines, crashed>>

cmdVars == <<cmd, cmdMsg, delivered, cmdCrashed>>

sessVars == <<state, currentView, cursor, composing, replyingTo, threadRoot,
              running, lastMsg, lastCmd, panicked, authMethod, threadFetches,
              pubKey>>

setVars == <<relays, settingsMenu, settingsCursor, editingRelay, newRelayInput,
             settingsKey, prevRelays>>

replyVars == <<posts>>

followVars == <<contactLists, undelivered, followPc, followed, followFrom>>

restVars == <<parseVars, dmVars, renderVars, cacheVars, cmdVars, sessVars, setVars, replyVars, followVars>>

vars == <<mergeVars, threadEvents, fetchVars, pubVars, payVars, restVars>>

\* Model.relays as NewModel() sets it.
DefaultRelays == {"wss://relay.damus.io", "wss://nos.lol", "wss://relay.nostr.band"}

\* ------------------------------------------------------------------ sorting

\* Every sequence that holds each element of the set S once.
RECURSIVE OrdersOfSet(_)
OrdersOfSet(S) ==
    IF S = {} THEN {<<>>}
    ELSE UNION {{<<x>> \o t : t \in OrdersOfSet(S \ {x})} : x \in S}

\* Every arrangement of the elements of s (repetitions kept).
Arrangements(s) ==
    {[i \in 1..Len(s) |-> s[f[i]]] : f \in OrdersOfSet(1..Len(s))}

\* No element is less than one before it.
IsSorted(p, less(_, _)) ==
    \A i, j \in 1..Len(p) : i < j => ~less(p[j], p[i])

\* sort.Slice(s, less): not stable, so any arrangement of s in which no
\* element is less than one before it.
SortSlice(s, less(_, _)) == {p \in Arrangements(s) : IsSorted(p, less)}

\* less of the timeline/DM/notification sort:
\* m.events[i].CreatedAt.Time().After(m.events[j].CreatedAt.Time())
NewestFirstReversed(a, b) == a.CreatedAt < b.CreatedAt
NewestFirst(a, b) == a.CreatedAt > b.CreatedAt

\* ------------------------------------------------------------------ merge

\* eventMap[evt.ID] = evt
MapPutUnderNewKey(map, evt) ==
    [k \in DOMAIN map \cup {MaxId + Cardinality(DOMAIN map) + 1} |->
        IF k \in DOMAIN map THEN map[k] ELSE evt]
MapPut(map, evt) ==
    [id \in DOMAIN map \cup {evt.ID} |-> IF id = evt.ID THEN evt ELSE map[id]]

\* for _, evt := range m.events { eventMap[evt.ID] = evt }
RECURSIVE MapOfSlice(_, _)
MapOfSlice(map, s) ==
    IF s = <<>> THEN map ELSE MapOfSlice(MapPut(map, Head(s)), Tail(s))

EmptyMap == [id \in {} |-> EventOf(1)]

\* The loop over msg.events, counting every incoming event as new.
RECURSIVE MergeLoopCountsAll(_, _, _, _)
MergeLoopCountsAll(map, incoming, newCount, last) ==
    IF incoming = <<>>
    THEN [map |-> map, newCount |-> newCount, last |-> last]
    ELSE LET evt == Head(incoming)
         IN  MergeLoopCountsAll(MapPut(map, evt),
                                Tail(incoming),
                                newCount + 1,
                                IF evt.CreatedAt > last THEN evt.CreatedAt ELSE last)

\* The loop over msg.events, keeping the timestamp of the event seen last.
RECURSIVE MergeLoopLastSeen(_, _, _, _)
MergeLoopLastSeen(map, incoming, newCount, last) ==
    IF incoming = <<>>
    THEN [map |-> map, newCount |-> newCount, last |-> last]
    ELSE LET evt == Head(incoming)
         IN  MergeLoopLastSeen(MapPut(map, evt),
                               Tail(incoming),
                               IF evt.ID \in DOMAIN map THEN newCount ELSE newCount + 1,
                               evt.CreatedAt)

\* The loop over msg.events: counts the ids not yet in the map, stores each
\* event and tracks the latest timestamp.
RECURSIVE MergeLoop(_, _, _, _)
MergeLoop(map, incoming, newCount, last) ==
    IF incoming = <<>>
    THEN [map |-> map, newCount |-> newCount, last |-> last]
    ELSE LET evt == Head(incoming)
         IN  MergeLoop(MapPut(map, evt),
                       Tail(incoming),
                       IF evt.ID \in DOMAIN map THEN newCount ELSE newCount + 1,
                       IF evt.CreatedAt > last THEN evt.CreatedAt ELSE last)

\* for _, evt := range eventMap { m.events = append(m.events, evt) }: Go ranges
\* over a map in an unspecified order.
SlicesOfMap(map) ==
    {[i \in 1..Len(ids) |-> map[ids[i]]] : ids \in OrdersOfSet(DOMAIN map)}

\* for _, evt := range eventMap { append }; sort.Slice(newest first): the
\* slices the handler can leave in the collection. Sorting any of the map's
\* orders can give any sorted order of its values.
SortedSlicesOfMap(map) == {p \in SlicesOfMap(map) : IsSorted(p, NewestFirst)}

\* A merge that does not put the existing events into the map first.
MergeOfIncomingOnly(existing, incoming, last) ==
    MergeLoop(EmptyMap, incoming, 0, last)

\* One run of the two loops of the merge of a result message into a
\* collection: the map, newCount and the latest timestamp.
Merge(existing, incoming, last) ==
    MergeLoop(MapOfSlice(EmptyMap, existing), incoming, 0, last)

\* What the handler can leave behind for one message: the collection, the
\* latest timestamp and newCount.
MergeOutcomesOf(existing, incoming, last) ==
    LET r == Merge(existing, incoming, last)
    IN  {[slice |-> p, last |-> r.last, newCount |-> r.newCount] :
            p \in SortedSlicesOfMap(r.map)}

\* The same over every event list a message can carry.
MergeOutcomes(existing, last) ==
    UNION {MergeOutcomesOf(existing, incoming, last) : incoming \in IncomingLists}

\* The collections one merge of incoming into existing can give.
MergedSlices(existing, incoming) ==
    {o.slice : o \in MergeOutcomesOf(existing, incoming, 0)}

\* The slices a collection can hold and the values of a latest timestamp.
Collections ==
    {[i \in DOMAIN o |-> EventOf(o[i])] :
        o \in UNION {OrdersOfSet(S) : S \in SUBSET EventIds}}
Timestamps == {0} \cup {CreatedAtOf(id) : id \in EventIds}

\* MergeOutcomes, tabulated.
MergeTable == [c \in Collections, l \in Timestamps |-> MergeOutcomes(c, l)]

\* statusMsg = fmt.Sprintf("Loaded %d new posts (%d total)", ...) or
\* "No new posts (%d total)"
MergeStatus(what, newCount, total) ==
    [text |-> IF newCount > 0 THEN "Loaded new " \o what ELSE "No new " \o what,
     new |-> newCount, total |-> total]

\* ------------------------------------------------------------------ Update

\* case eventsMsg
UpdateEventsMsg ==
    \E o \in MergeTable[events, lastEventTime] :
        /\ events' = o.slice
        /\ lastEventTime' = o.last
        /\ statusMsg' = MergeStatus("posts", o.newCount, Len(o.slice))
        /\ UNCHANGED <<dms, notifications, lastDMTime, lastNotifTime>>

\* case dmsMsg
UpdateDmsMsg ==
    \E o \in MergeTable[dms, lastDMTime] :
        /\ dms' = o.slice
        /\ lastDMTime' = o.last
        /\ statusMsg' = MergeStatus("DMs", o.newCount, Len(o.slice))
        /\ UNCHANGED <<events, notifications, lastEventTime, lastNotifTime>>

\* case notificationsMsg
UpdateNotificationsMsg ==
    \E o \in MergeTable[notifications, lastNotifTime] :
        /\ notifications' = o.slice
        /\ lastNotifTime' = o.last
        /\ statusMsg' = MergeStatus("notifications", o.newCount, Len(o.slice))
        /\ UNCHANGED <<events, dms, lastEventTime, lastDMTime>>

\* NewModel(): empty collections, zero timestamps, no status.
InitModel ==
    /\ events = <<>>
    /\ dms = <<>>
    /\ notifications = <<>>
    /\ lastEventTime = 0
    /\ lastDMTime = 0
    /\ lastNotifTime = 0
    /\ statusMsg = [text |-> "", new |-> 0, total |-> 0]
    /\ threadEvents = <<>>

\* No fetch command has been issued.
InitFetch ==
    /\ inbox = <<>>
    /\ fPc = "idle"
    /\ fKind = "events"
    /\ relayState = [r \in DefaultRelays |-> "eose"]
    /\ fSent = <<>>
    /\ fEvents = <<>>

\* error(nil)
NoError == [relay |-> "", reason |-> ""]

\* No publish command has been issued.
InitPublish ==
    /\ pPc = "idle"
    /\ pKind = "post"
    /\ pOutcome = [r \in DefaultRelays |-> "none"]
    /\ pPending = {}
    /\ pResults = <<>>
    /\ successCount = 0
    /\ lastErr = NoError

\* The 30 s of context.WithTimeout and the 500 ms of time.Sleep, in clock
\* units (the settle delay is the shorter of the two).
PayTimeout == 3
SettleDelay == 1

\* "not yet" for subTime and pubTime
NoTime == 0 - 1

\* PayInvoiceResponse.Error == nil
NoWalletError == [code |-> "", message |-> ""]

\* PayInvoiceResponse.Error of a wallet that refused
WalletErrors == {[code |-> "INSUFFICIENT_BALANCE", message |-> "not enough funds"]}

\* The content of an event, by what nip04.Decrypt and json.Unmarshal make of
\* it: whether it decrypts, whether the plaintext parses, and the error and
\* result fields of the parsed response.
Contents ==
    {[decrypts |-> FALSE, parses |-> FALSE, error |-> NoWalletError, result |-> FALSE],
     [decrypts |-> TRUE, parses |-> FALSE, error |-> NoWalletError, result |-> FALSE]}
    \cup {[decrypts |-> TRUE, parses |-> TRUE, error |-> e, result |-> r] :
            e \in WalletErrors \cup {NoWalletError}, r \in BOOLEAN}

\* evt.PubKey and evt.ID of the request
OurPubKey == "P"
RequestId == "R"

\* The tags an incoming event may carry.
TagChoices == {<<"p", OurPubKey>>, <<"e", RequestId>>, <<"p", RequestId>>, <<"p">>}
TagLists == UNION {[1..n -> TagChoices] : n \in 0..MaxTags}

\* The zero RelayEvent (Event == nil): what a receive on the closed
\* responseChan yields.
NilRelayEvent ==
    [nil |-> TRUE, tags |-> <<>>,
     content |-> [decrypts |-> FALSE, parses |-> FALSE, error |-> NoWalletError, result |-> FALSE]]

\* The events the wallet relay may deliver.
RelayEvents == {[nil |-> FALSE, tags |-> t, content |-> c] : t \in TagLists, c \in Contents}

\* The error PayInvoice returns; Succeeded is the nil error.
Failed(reason, walletError) == [ok |-> FALSE, reason |-> reason, error |-> walletError]
Succeeded == [ok |-> TRUE, reason |-> "", error |-> NoWalletError]
Pending == [ok |-> FALSE, reason |-> "pending", error |-> NoWalletError]

\* The secrets a client can hold (ParseNWCString accepts every non-empty
\* one): a bech32 nsec, a string that is not bech32 (the hex secret of a
\* wallet's connection string), a bech32 npub, a bech32 nprofile.
Secrets == {"nsec1key", "b0b0hex", "npub1key", "nprofile1ptr"}

\* nip19.Decode: an error for what is not a known bech32 entity; the hex
\* string of the 32 bytes for nsec and npub; a pointer struct for nprofile.
Nip19Decode(s) ==
    IF s = "b0b0hex" THEN [err |-> TRUE, prefix |-> "", isString |-> FALSE]
    ELSE IF s = "nsec1key" THEN [err |-> FALSE, prefix |-> "nsec", isString |-> TRUE]
    ELSE IF s = "npub1key" THEN [err |-> FALSE, prefix |-> "npub", isString |-> TRUE]
    ELSE [err |-> FALSE, prefix |-> "nprofile", isString |-> FALSE]

\* The goroutine panicked (no error value is returned).
Panicked == [ok |-> FALSE, reason |-> "panic: interface conversion", error |-> NoWalletError]

\* PayInvoice has been called and has not run yet.
InitPay ==
    /\ pc = "start"
    /\ now = 0
    /\ deadline = 0
    /\ parentDone = FALSE
    /\ subTime = NoTime
    /\ pubTime = NoTime
    /\ published = FALSE
    /\ chClosed = FALSE
    /\ event = NilRelayEvent
    /\ eventCount = 0
    /\ result = Pending
    /\ secret \in Secrets
    /\ publishCalls = 0

\* PayInvoice has been called on a client built with an nsec.
InitPayDefault == InitPay /\ secret = "nsec1key"

\* ------------------------------------------------------------------ connection string

\* A connection string, by its parts: how it begins, the host that url.Parse
\* finds, the raw key=value pairs of its query in order, and whether
\* url.Parse accepts it at all.
UriStarts == {"nostr+walletconnect://", "nostr+walletconnect:", "https://"}
UriHosts == {"", "walletpk"}
QueryKeys == {"relay", "secret", "lud16"}
RawValues == {"", "wss%3A%2F%2Fr", "nsec1x", "%zz"}
Queries == UNION {[1..n -> QueryKeys \X RawValues] : n \in 0..MaxQuery}
URIs == [start : UriStarts, host : UriHosts, query : Queries, parses : BOOLEAN]

\* url.QueryUnescape: the percent-escapes are decoded; a malformed escape is
\* an error.
QueryUnescape(raw) ==
    IF raw = "%zz" THEN [ok |-> FALSE, text |-> ""]
    ELSE IF raw = "wss%3A%2F%2Fr" THEN [ok |-> TRUE, text |-> "wss://r"]
    ELSE [ok |-> TRUE, text |-> raw]

\* u.Query(): the pairs whose value unescapes, decoded, in order (a pair with
\* a malformed escape is left out, the error is dropped).
RECURSIVE ParseQuery(_)
ParseQuery(query) ==
    IF query = <<>> THEN <<>>
    ELSE LET v == QueryUnescape(Head(query)[2])
         IN  IF v.ok THEN <<<<Head(query)[1], v.text>>>> \o ParseQuery(Tail(query))
             ELSE ParseQuery(Tail(query))

\* url.Values.Get: the first value of the key, "" when there is none.
RECURSIVE QueryGet(_, _)
QueryGet(values, key) ==
    IF values = <<>> THEN ""
    ELSE IF Head(values)[1] = key THEN Head(values)[2]
    ELSE QueryGet(Tail(values), key)

\* What ParseNWCString returns.
ParseError(msg) == [walletPubkey |-> "", relay |-> "", secret |-> "", err |-> msg]

ParseNWCStringNoEmptyCheck(u) ==
    IF u.start # "nostr+walletconnect://"
    THEN ParseError("invalid NWC URI: must start with nostr+walletconnect://")
    ELSE IF ~u.parses THEN ParseError("failed to parse URI")
    ELSE [walletPubkey |-> u.host,
          relay |-> QueryGet(ParseQuery(u.query), "relay"),
          secret |-> QueryGet(ParseQuery(u.query), "secret"),
          err |-> ""]
ParseNWCString(u) ==
    IF u.start # "nostr+walletconnect://"
    THEN ParseError("invalid NWC URI: must start with nostr+walletconnect://")
    ELSE IF ~u.parses THEN ParseError("failed to parse URI")
    ELSE LET walletPubkey == u.host
             relay == QueryGet(ParseQuery(u.query), "relay")
             secretParam == QueryGet(ParseQuery(u.query), "secret")
         IN  IF walletPubkey = "" \/ relay = "" \/ secretParam = ""
             THEN ParseError("missing required parameters (pubkey, relay, or secret)")
             ELSE [walletPubkey |-> walletPubkey, relay |-> relay, secret |-> secretParam, err |-> ""]

\* return nil, err
NoClient == [walletPubkey |-> "", relay |-> "", secret |-> "", pool |-> "none"]

\* What NewNWCClient returns: no client and the error of ParseNWCString, or a
\* client with a fresh pool (nothing is connected yet).
NewNWCClient(u) ==
    LET r == ParseNWCString(u)
    IN  IF r.err # "" THEN [client |-> NoClient, err |-> r.err]
        ELSE [client |-> [walletPubkey |-> r.walletPubkey, relay |-> r.relay,
                          secret |-> r.secret, pool |-> "new"],
              err |-> ""]

\* The function has not been called.
NotCalledParse == ParseError("not called")
NotCalledClient == [client |-> NoClient, err |-> "not called"]

\* A well-formed connection string.
DefaultURI ==
    [start |-> "nostr+walletconnect://", host |-> "walletpk",
     query |-> <<<<"relay", "wss%3A%2F%2Fr">>, <<"secret", "nsec1x">>>>, parses |-> TRUE]

\* No function of the package has been called on the connection string.
InitParseIdle ==
    /\ uri = DefaultURI
    /\ parseOut = NotCalledParse
    /\ clientOut = NotCalledClient

\* Any connection string.
InitParse ==
    /\ uri \in URIs
    /\ parseOut = NotCalledParse
    /\ clientOut = NotCalledClient

CallParseNWCString ==
    /\ parseOut = NotCalledParse
    /\ parseOut' = ParseNWCString(uri)
    /\ UNCHANGED <<uri, clientOut>>

CallNewNWCClient ==
    /\ clientOut = NotCalledClient
    /\ clientOut' = NewNWCClient(uri)
    /\ UNCHANGED <<uri, parseOut>>

\* ------------------------------------------------------------------ direct message envelopes

\* The user's own pubkey and the pubkeys a DM can be sent to.
OwnPubKey == "me"
Recipients == {"alice", "me"}

\* The arguments of publishDMCmd that choose its path.
DMArgs == [authMethod : {"nsec", "pleb_signer"}, privKey : {"", "sk"},
           recipientPubKey : Recipients, content : {"hi", ""}]

\* "no rumor inside" for an event that is not a gift wrap
NoRumor == [kind |-> 0, content |-> "", p |-> "", pubkey |-> ""]

\* The kind 14 rumor of a modern DM.
Rumor(args) ==
    [kind |-> 14, content |-> args.content, p |-> args.recipientPubKey, pubkey |-> OwnPubKey]

\* nip59.GiftWrap(rumor, target, ...): a kind 1059 event tagged with the
\* target, holding the sealed rumor.
GiftWrap(rumor, target) == [kind |-> 1059, p |-> target, rumor |-> rumor, content |-> "sealed"]

\* The kind 4 event of a legacy DM: content encrypted by the signer, tagged
\* with the recipient.
LegacyDM(args) ==
    [kind |-> 4, p |-> args.recipientPubKey, rumor |-> NoRumor, content |-> "nip04"]

\* The envelopes publishDMCmd builds: two gift wraps of one rumor with an
\* nsec and its private key, one legacy event otherwise.
EnvelopesAlwaysLegacy(args) == <<LegacyDM(args)>>
Envelopes(args) ==
    IF args.authMethod = "nsec" /\ args.privKey # ""
    THEN <<GiftWrap(Rumor(args), args.recipientPubKey), GiftWrap(Rumor(args), OwnPubKey)>>
    ELSE <<LegacyDM(args)>>

\* The error a failed build step returns.
BuildErrors(args) ==
    IF args.authMethod = "nsec" /\ args.privKey # ""
    THEN {"failed to create gift wrap for recipient", "failed to create gift wrap for self"}
    ELSE {"failed to encrypt DM", "failed to sign DM"}

\* No publishDMCmd has been issued.
InitDM ==
    /\ dPc = "idle"
    /\ dArgs = [authMethod |-> "nsec", privKey |-> "sk", recipientPubKey |-> "alice", content |-> "hi"]
    /\ dWraps = <<>>
    /\ dSent = <<>>
    /\ dSuccessCount = 0
    /\ dLastErr = NoError
    /\ dAcked = <<>>

\* The profile cache and the update loop before any message: NewModel.
Pubkeys == {"alice", "bob"}
Names == {"Alice", "Bob"}
NoArg == [kind |-> "none", profiles |-> [k \in Pubkeys |-> "absent"], pubkey |-> ""]

InitCache ==
    /\ userCache = [k \in Pubkeys |-> "absent"]
    /\ uiPc = "idle"
    /\ uiArg = NoArg
    /\ goroutines = [k \in Pubkeys |-> 0]
    /\ crashed = FALSE

\* No command has been issued: NewModel.
NilMsg == [type |-> "nil", following |-> <<>>, err |-> ""]
IdleCmd == [kind |-> "none", pc |-> "idle", following |-> <<>>, successCount |-> 0,
            lastErr |-> NoError, received |-> 0, started |-> 0]

InitCmd ==
    /\ cmd = IdleCmd
    /\ cmdMsg = NilMsg
    /\ delivered = <<>>
    /\ cmdCrashed = FALSE

\* The session right after authentication: the follow list is being loaded.
NoEvent == [ID |-> 0, CreatedAt |-> 0]

AuthMethods == {"nsec", "pleb_signer"}

\* case nsecAuthMsg (connectWithNsecCmd has decoded the private key) and
\* case pubKeyMsg (Pleb Signer has answered).
SessionAfter(method) ==
    /\ authMethod = method
    /\ state = "loadingFollows"
    /\ currentView = "following"
    /\ cursor = 0
    /\ composing = "post"
    /\ replyingTo = NoEvent
    /\ threadRoot = NoEvent
    /\ running = {"fetchFollowing"}
    /\ lastMsg = (IF method = "nsec" THEN "nsecAuthMsg" ELSE "pubKeyMsg")
    /\ lastCmd = {"fetchFollowing"}
    /\ panicked = FALSE
    /\ threadFetches = {}
    /\ pubKey = "pk"

InitSession == SessionAfter("pleb_signer")

InitSessionAny == \E method \in AuthMethods : SessionAfter(method)

\* Landing screen, "enter" on "Open Client" with an authentication method
\* chosen: stateConnecting, and connectToPlebSignerCmd or connectWithNsecCmd
\* ("connect") is started.
InitConnecting ==
    /\ authMethod \in AuthMethods
    /\ state = "connecting"
    /\ currentView = "following"
    /\ cursor = 0
    /\ composing = "post"
    /\ replyingTo = NoEvent
    /\ threadRoot = NoEvent
    /\ running = {"connect"}
    /\ lastMsg = "enter"
    /\ lastCmd = {"connect"}
    /\ panicked = FALSE
    /\ threadFetches = {}
    /\ pubKey = ""

\* A relay that stores no contact list of the user, and one from which an
\* incoming event without an event comes.
NoAnswer == [kind |-> "none", CreatedAt |-> 0, Tags |-> <<>>]
NilAnswer == [kind |-> "nil", CreatedAt |-> 0, Tags |-> <<>>]

\* fetchFollowingCmd has not been started.
InitFollowIdle ==
    /\ contactLists = [r \in DefaultRelays |-> NoAnswer]
    /\ undelivered = {}
    /\ followPc = "idle"
    /\ followed = <<>>
    /\ followFrom = "none"

\* No note has been composed.
InitReply == posts = <<>>

\* NewModel: the default relays; the settings screen has handled no key.
InitialRelays == << <<"wss://relay.damus.io">>, <<"wss://nos.lol">>, <<"wss://relay.nostr.band">> >>

InitSettings ==
    /\ relays = InitialRelays
    /\ settingsMenu = 0
    /\ settingsCursor = 0
    /\ editingRelay = FALSE
    /\ newRelayInput = <<>>
    /\ settingsKey = "none"
    /\ prevRelays = InitialRelays

\* Nothing is displayed yet.
InitRenderIdle ==
    /\ viewer = [authMethod |-> "nsec", privKey |-> "sk", signerUp |-> FALSE]
    /\ viewEvents = <<>>
    /\ rendered = <<>>

InitMerge == InitModel /\ InitFetch /\ InitPublish /\ InitPayDefault /\ InitParseIdle /\ InitDM /\ InitRenderIdle /\ InitCache /\ InitCmd /\ InitSession /\ InitSettings /\ InitReply /\ InitFollowIdle

NextMerge ==
    \/ UpdateEventsMsg /\ UNCHANGED <<threadEvents, fetchVars, pubVars, payVars, restVars>>
    \/ UpdateDmsMsg /\ UNCHANGED <<threadEvents, fetchVars, pubVars, payVars, restVars>>
    \/ UpdateNotificationsMsg /\ UNCHANGED <<threadEvents, fetchVars, pubVars, payVars, restVars>>

SpecMerge == InitMerge /\ [][NextMerge]_vars

\* ------------------------------------------------------------------ fetch

\* IncomingEvent.Event == nil
NilEvent == [ID |-> 0, CreatedAt |-> 0]

\* less of the thread sort: events[i].CreatedAt < events[j].CreatedAt
OldestFirstReversed(a, b) == a.CreatedAt > b.CreatedAt
OldestFirst(a, b) == a.CreatedAt < b.CreatedAt

\* fetchEventsCmd / fetchThreadCmd up to pool.SubManyEose: the subscription
\* is opened on every relay; a relay that errors on connect ends its task
\* without putting anything on the channel.
FetchStart ==
    /\ fPc = "idle"
    /\ \E kind \in {"events", "thread"}, st \in [DefaultRelays -> {"broken", "open"}] :
        /\ fKind' = kind
        /\ relayState' = st
    /\ fPc' = "receiving"
    /\ fSent' = <<>>
    /\ fEvents' = <<>>
    /\ UNCHANGED inbox

\* The loop body on one item of the channel:
\* if event.Event == nil { continue }; events = append(events, *event.Event)
FetchAppend(evs, item) ==
    IF item = NilEvent THEN evs ELSE Append(evs, item)

\* One iteration of `for event := range eventsChannel`: an open relay puts an
\* item on the channel and the command takes it.
FetchRecv ==
    /\ fPc = "receiving"
    /\ Len(fSent) < MaxDeliveries
    /\ \E r \in DefaultRelays, item \in AllEvents \cup {NilEvent} :
        /\ relayState[r] = "open"
        /\ fSent' = Append(fSent, [relay |-> r, event |-> item])
        /\ fEvents' = FetchAppend(fEvents, item)
    /\ UNCHANGED <<inbox, fPc, fKind, relayState>>

\* A relay signals the end of its stored events.
RelayEose ==
    /\ fPc = "receiving"
    /\ \E r \in DefaultRelays :
        /\ relayState[r] = "open"
        /\ relayState' = [relayState EXCEPT ![r] = "eose"]
    /\ UNCHANGED <<inbox, fPc, fKind, fSent, fEvents>>

\* The command's 10 s context expires: every relay task still open ends.
FetchTimeout ==
    /\ fPc = "receiving"
    /\ \E r \in DefaultRelays : relayState[r] = "open"
    /\ relayState' = [r \in DefaultRelays |->
                        IF relayState[r] = "open" THEN "eose" ELSE relayState[r]]
    /\ UNCHANGED <<inbox, fPc, fKind, fSent, fEvents>>

\* The message the command returns once the channel is closed.
\* fetchEventsCmd: eventsMsg{events}; fetchThreadCmd: sort.Slice oldest first,
\* threadEventsMsg{events}.
FetchResultErrOnBrokenRelay(kind, evs, st) ==
    IF \E r \in DOMAIN st : st[r] = "broken"
    THEN {[type |-> "errMsg", events |-> <<>>]}
    ELSE {[type |-> "eventsMsg", events |-> evs]}
FetchResult(kind, evs, st) ==
    IF kind = "events"
    THEN {[type |-> "eventsMsg", events |-> evs]}
    ELSE {[type |-> "threadEventsMsg", events |-> p] : p \in SortSlice(evs, OldestFirst)}

\* The channel is closed (no relay task is left): the loop ends and the
\* command returns its message.
FetchReturn ==
    /\ fPc = "receiving"
    /\ \A r \in DefaultRelays : relayState[r] # "open"
    /\ \E msg \in FetchResult(fKind, fEvents, relayState) : inbox' = Append(inbox, msg)
    /\ fPc' = "done"
    /\ UNCHANGED <<fKind, relayState, fSent, fEvents>>

\* Model.Update on the message at the head of the inbox: case eventsMsg,
\* case threadEventsMsg, case errMsg.
UpdateInbox ==
    /\ inbox # <<>>
    /\ LET msg == Head(inbox)
       IN  \/ /\ msg.type = "eventsMsg"
              /\ \E o \in MergeOutcomesOf(events, msg.events, lastEventTime) :
                    /\ events' = o.slice
                    /\ lastEventTime' = o.last
                    /\ statusMsg' = MergeStatus("posts", o.newCount, Len(o.slice))
              /\ UNCHANGED threadEvents
           \/ /\ msg.type = "threadEventsMsg"
              /\ threadEvents' = msg.events
              /\ statusMsg' = [text |-> "Thread loaded", new |-> 0,
                               total |-> Len(msg.events)]
              /\ UNCHANGED <<events, lastEventTime>>
    /\ inbox' = Tail(inbox)
    /\ UNCHANGED <<dms, notifications, lastDMTime, lastNotifTime>>
    /\ UNCHANGED <<fPc, fKind, relayState, fSent, fEvents>>

NextFetch ==
    \/ FetchStart /\ UNCHANGED <<mergeVars, threadEvents, pubVars, payVars, restVars>>
    \/ FetchRecv /\ UNCHANGED <<mergeVars, threadEvents, pubVars, payVars, restVars>>
    \/ RelayEose /\ UNCHANGED <<mergeVars, threadEvents, pubVars, payVars, restVars>>
    \/ FetchTimeout /\ UNCHANGED <<mergeVars, threadEvents, pubVars, payVars, restVars>>
    \/ FetchReturn /\ UNCHANGED <<mergeVars, threadEvents, pubVars, payVars, restVars>>
    \/ UpdateInbox /\ UNCHANGED <<pubVars, payVars, restVars>>

InitFetchSpec == InitModel /\ InitFetch /\ InitPublish /\ InitPayDefault /\ InitParseIdle /\ InitDM /\ InitRenderIdle /\ InitCache /\ InitCmd /\ InitSession /\ InitSettings /\ InitReply /\ InitFollowIdle

SpecFetch == InitFetchSpec /\ [][NextFetch]_vars

\* ------------------------------------------------------------------ publish

\* What the publish task of one relay can end with: the relay acknowledged
\* the event (OK true), refused it (OK false), could not be reached, did not
\* answer before the context expired, or put no result on the channel.
PublishOutcomes == {"ok", "rejected", "unreachable", "timeout", "none"}

\* PublishResult.Error of a relay's result.
ResultError(r, outcome) ==
    IF outcome = "ok" THEN NoError ELSE [relay |-> r, reason |-> outcome]

\* fmt.Errorf("failed to publish: %w", lastErr) and its siblings.
ErrMsg(text, cause) == [type |-> "errMsg", err |-> [text |-> text, cause |-> cause]]

\* publishPostCmd / repostCmd up to pool.PublishMany: the event is built and
\* signed; a signing error ends the command with an errMsg, otherwise the
\* publish is fired at every relay.
PublishStart ==
    /\ pPc = "idle"
    /\ \E kind \in {"post", "repost"} :
        /\ pKind' = kind
        /\ \/ /\ pPc' = "notsigned"
              /\ inbox' = Append(inbox,
                    ErrMsg(IF kind = "post" THEN "failed to sign event"
                           ELSE "failed to sign repost", [relay |-> "", reason |-> "sign"]))
              /\ UNCHANGED <<pOutcome, pPending>>
           \/ /\ pPc' = "collecting"
              /\ \E out \in [DefaultRelays -> PublishOutcomes] :
                    /\ pOutcome' = out
                    /\ pPending' = {r \in DefaultRelays : out[r] # "none"}
              /\ UNCHANGED inbox
    /\ pResults' = <<>>
    /\ successCount' = 0
    /\ lastErr' = NoError

\* One iteration of `for result := range results`.
PublishRecv ==
    /\ pPc = "collecting"
    /\ \E r \in pPending :
        LET error == ResultError(r, pOutcome[r])
        IN  /\ pPending' = pPending \ {r}
            /\ pResults' = Append(pResults, [relay |-> r, error |-> error])
            /\ successCount' = IF error = NoError THEN successCount + 1 ELSE successCount
            /\ lastErr' = IF error = NoError THEN lastErr ELSE error
    /\ UNCHANGED <<pPc, pKind, pOutcome, inbox>>

\* The message the command returns after the loop.
PublishReportFailsOnAnyError(kind, count, err) ==
    IF err # NoError
    THEN ErrMsg("failed to publish", err)
    ELSE [type |-> "publishSuccessMsg", eventID |-> "evt"]
PublishReport(kind, count, err) ==
    IF count = 0
    THEN IF err # NoError
         THEN ErrMsg(IF kind = "post" THEN "failed to publish" ELSE "failed to repost", err)
         ELSE ErrMsg(IF kind = "post"
                     THEN "failed to publish to any relay (no results)"
                     ELSE "failed to repost to any relay", NoError)
    ELSE [type |-> "publishSuccessMsg", eventID |-> "evt"]

\* The command returns at once, whatever is still to come on the channel.
PublishReturnEarly ==
    /\ pPc = "collecting"
    /\ inbox' = Append(inbox, PublishReport(pKind, successCount, lastErr))
    /\ pPc' = "done"
    /\ UNCHANGED <<pKind, pOutcome, pPending, pResults, successCount, lastErr>>

\* The results channel is closed: the loop ends and the command returns.
PublishReturn ==
    /\ pPc = "collecting"
    /\ pPending = {}
    /\ inbox' = Append(inbox, PublishReport(pKind, successCount, lastErr))
    /\ pPc' = "done"
    /\ UNCHANGED <<pKind, pOutcome, pPending, pResults, successCount, lastErr>>

NextPublish ==
    \/ PublishStart /\ UNCHANGED <<mergeVars, threadEvents, fPc, fKind, relayState, fSent, fEvents, payVars, restVars>>
    \/ PublishRecv /\ UNCHANGED <<mergeVars, threadEvents, fPc, fKind, relayState, fSent, fEvents, payVars, restVars>>
    \/ PublishReturn /\ UNCHANGED <<mergeVars, threadEvents, fPc, fKind, relayState, fSent, fEvents, payVars, restVars>>

InitPublishSpec == InitModel /\ InitFetch /\ InitPublish /\ InitPayDefault /\ InitParseIdle /\ InitDM /\ InitRenderIdle /\ InitCache /\ InitCmd /\ InitSession /\ InitSettings /\ InitReply /\ InitFollowIdle

SpecPublish == InitPublishSpec /\ [][NextPublish]_vars

\* ------------------------------------------------------------------ pay

\* The errors of the steps between decoding the secret and setting the
\* deadline: computing the shared secret, encrypting, deriving the public
\* key, signing.
PrepErrors == {"failed to compute shared secret", "failed to encrypt content",
               "failed to get public key", "failed to sign event"}

\* sk.(string): the decoded value is used as the secret key when it is a
\* string, whatever its prefix; the assertion panics when it is not.
SecretKeyOf(d) == [panics |-> ~d.isString]

\* PayInvoice up to context.WithTimeout: the secret is decoded and asserted
\* to be a string, then any of the preparation steps may fail and end the
\* call; otherwise the deadline is set.
PayPrepare ==
    /\ pc = "start"
    /\ LET d == Nip19Decode(secret)
       IN  IF d.err
           THEN /\ result' = Failed("failed to decode secret", NoWalletError)
                /\ pc' = "done"
                /\ UNCHANGED deadline
           ELSE IF SecretKeyOf(d).panics
           THEN /\ result' = Panicked
                /\ pc' = "done"
                /\ UNCHANGED deadline
           ELSE \/ \E e \in PrepErrors :
                     /\ result' = Failed(e, NoWalletError)
                     /\ pc' = "done"
                     /\ UNCHANGED deadline
                \/ /\ deadline' = now + PayTimeout
                   /\ pc' = "subscribe"
                   /\ UNCHANGED result
    /\ UNCHANGED <<now, parentDone, subTime, pubTime, published, chClosed, event,
                   eventCount, secret, publishCalls>>

\* ctx.Done() is ready: the deadline has passed or the caller cancelled.
CtxDoneAtOnce == TRUE
CtxDone == now >= deadline \/ parentDone

\* pool.SubMany, then the goroutine goes to sleep.
PaySubscribe ==
    /\ pc = "subscribe"
    /\ subTime' = now
    /\ pc' = "sleeping"
    /\ UNCHANGED <<now, deadline, parentDone, pubTime, published, chClosed, event, eventCount, result, secret, publishCalls>>

\* time.Sleep(500 * time.Millisecond) started at t0 has returned.
SleepReturnedAtOnce(t0) == TRUE
SleepReturned(t0) == now >= t0 + SettleDelay

\* The sleep returns; pool.PublishMany is called on the one wallet relay and
\* its results are read: `published` is whether the relay accepted the
\* request. An unpublished request ends the call.
PayPublishRetries ==
    /\ pc = "sleeping"
    /\ SleepReturned(subTime)
    /\ pubTime' = now
    /\ publishCalls' = publishCalls + 1
    /\ \E accepted \in BOOLEAN :
        /\ published' = accepted
        /\ pc' = IF accepted THEN "waiting" ELSE "sleeping"
    /\ eventCount' = 0
    /\ UNCHANGED <<now, deadline, parentDone, subTime, chClosed, event, result, secret>>
PayPublishEntersLoop ==
    /\ pc = "sleeping"
    /\ SleepReturned(subTime)
    /\ pubTime' = now
    /\ publishCalls' = publishCalls + 1
    /\ \E accepted \in BOOLEAN : published' = accepted
    /\ pc' = "waiting"
    /\ eventCount' = 0
    /\ UNCHANGED <<now, deadline, parentDone, subTime, chClosed, event, result, secret>>
PayPublish ==
    /\ pc = "sleeping"
    /\ SleepReturned(subTime)
    /\ pubTime' = now
    /\ publishCalls' = publishCalls + 1
    /\ \E accepted \in BOOLEAN :
        /\ published' = accepted
        /\ IF accepted
           THEN pc' = "waiting" /\ UNCHANGED result
           ELSE /\ pc' = "done"
                /\ result' = Failed("failed to publish request to wallet relay", NoWalletError)
    /\ eventCount' = 0
    /\ UNCHANGED <<now, deadline, parentDone, subTime, chClosed, event, secret>>

\* The loop over event.Event.Tags that computes isResponse.
RECURSIVE IsResponseOnlyByPTag(_)
IsResponseOnlyByPTag(tags) ==
    IF tags = <<>> THEN FALSE
    ELSE IF Len(Head(tags)) >= 2 /\ Head(tags)[1] = "p" /\ Head(tags)[2] = OurPubKey
         THEN TRUE
         ELSE IsResponseOnlyByPTag(Tail(tags))
RECURSIVE IsResponse(_)
IsResponse(tags) ==
    IF tags = <<>> THEN FALSE
    ELSE LET tag == Head(tags)
         IN  IF Len(tag) >= 2 /\ tag[1] = "p" /\ tag[2] = OurPubKey THEN TRUE
             ELSE IF Len(tag) >= 2 /\ tag[1] = "e" /\ tag[2] = RequestId THEN TRUE
             ELSE IsResponse(Tail(tags))

\* What PayInvoice returns for a response event: decrypt, parse, then the
\* error field, then the result field.
ResponseOutcomeResultFirst(content) ==
    IF ~content.decrypts THEN Failed("failed to decrypt response", NoWalletError)
    ELSE IF ~content.parses THEN Failed("failed to parse response", NoWalletError)
    ELSE IF content.result THEN Succeeded
    ELSE IF content.error # NoWalletError THEN Failed("wallet error", NoWalletError)
    ELSE Failed("no result in response", NoWalletError)
\* The same without the check of the result field.
ResponseOutcomeNoResultCheck(content) ==
    IF ~content.decrypts THEN Failed("failed to decrypt response", NoWalletError)
    ELSE IF ~content.parses THEN Failed("failed to parse response", NoWalletError)
    ELSE IF content.error # NoWalletError THEN Failed("wallet error", content.error)
    ELSE Succeeded

ResponseOutcome(content) ==
    IF ~content.decrypts THEN Failed("failed to decrypt response", NoWalletError)
    ELSE IF ~content.parses THEN Failed("failed to parse response", NoWalletError)
    ELSE IF content.error # NoWalletError THEN Failed("wallet error", content.error)
    ELSE IF ~content.result THEN Failed("no result in response", NoWalletError)
    ELSE Succeeded

\* `case event := <-responseChan`: an open channel hands over an event of the
\* relay, a closed one the zero value.
PayRecv ==
    /\ pc = "waiting"
    /\ eventCount < MaxEvents
    /\ \E item \in (IF chClosed THEN {NilRelayEvent} ELSE RelayEvents) :
        event' = item
    /\ eventCount' = eventCount + 1
    /\ pc' = "received"
    /\ UNCHANGED <<now, deadline, parentDone, subTime, pubTime, published, chClosed, result, secret, publishCalls>>

\* The body of the case: a nil event and an event that is not a response are
\* skipped (`continue` leaves the scope of `event`); a response ends the call.
\* The body blocks nowhere and reads neither the clock nor the context, so
\* the steps of the environment are taken before or after it.
PayHandle ==
    /\ pc = "received"
    /\ IF ~event.nil /\ IsResponse(event.tags)
       THEN /\ result' = ResponseOutcome(event.content)
            /\ pc' = "done"
            /\ UNCHANGED event
       ELSE /\ pc' = "waiting"
            /\ event' = NilRelayEvent
            /\ UNCHANGED result
    /\ UNCHANGED <<now, deadline, parentDone, subTime, pubTime, published, chClosed, eventCount, secret, publishCalls>>

\* `case <-ctx.Done()`
PayCtxDone ==
    /\ pc = "waiting"
    /\ CtxDone
    /\ result' = Failed("timeout waiting for wallet response (30s)", NoWalletError)
    /\ pc' = "done"
    /\ UNCHANGED <<now, deadline, parentDone, subTime, pubTime, published, chClosed, event, eventCount, secret, publishCalls>>

\* The pool closes responseChan (its subscription goroutines have ended).
ChanClose ==
    /\ subTime # NoTime
    /\ pc \notin {"received", "done"}
    /\ ~chClosed
    /\ chClosed' = TRUE
    /\ UNCHANGED <<pc, now, deadline, parentDone, subTime, pubTime, published, event, eventCount, result, secret, publishCalls>>

\* The caller cancels the context it passed to PayInvoice.
ParentCancel ==
    /\ pc \notin {"start", "received", "done"}
    /\ ~parentDone
    /\ parentDone' = TRUE
    /\ UNCHANGED <<pc, now, deadline, subTime, pubTime, published, chClosed, event, eventCount, result, secret, publishCalls>>

\* Time passes.
Tick ==
    /\ pc \notin {"start", "received", "done"}
    /\ now < MaxTime
    /\ now' = now + 1
    /\ UNCHANGED <<pc, deadline, parentDone, subTime, pubTime, published, chClosed, event, eventCount, result, secret, publishCalls>>

NextPay ==
    \/ PayPrepare /\ UNCHANGED <<mergeVars, threadEvents, fetchVars, pubVars, restVars>>
    \/ PaySubscribe /\ UNCHANGED <<mergeVars, threadEvents, fetchVars, pubVars, restVars>>
    \/ PayPublish /\ UNCHANGED <<mergeVars, threadEvents, fetchVars, pubVars, restVars>>
    \/ PayRecv /\ UNCHANGED <<mergeVars, threadEvents, fetchVars, pubVars, restVars>>
    \/ PayHandle /\ UNCHANGED <<mergeVars, threadEvents, fetchVars, pubVars, restVars>>
    \/ PayCtxDone /\ UNCHANGED <<mergeVars, threadEvents, fetchVars, pubVars, restVars>>
    \/ ChanClose /\ UNCHANGED <<mergeVars, threadEvents, fetchVars, pubVars, restVars>>
    \/ ParentCancel /\ UNCHANGED <<mergeVars, threadEvents, fetchVars, pubVars, restVars>>
    \/ Tick /\ UNCHANGED <<mergeVars, threadEvents, fetchVars, pubVars, restVars>>

InitPaySpec == InitModel /\ InitFetch /\ InitPublish /\ InitPay /\ InitParseIdle /\ InitDM /\ InitRenderIdle /\ InitCache /\ InitCmd /\ InitSession /\ InitSettings /\ InitReply /\ InitFollowIdle

SpecPay == InitPaySpec /\ [][NextPay]_vars

\* The clock advances, the goroutine of PayInvoice is scheduled, and a select
\* that finds ctx.Done() ready again and again chooses it in the end (Go's
\* select picks among the ready cases at random).
FairSpecPay ==
    /\ InitPaySpec
    /\ [][NextPay]_vars
    /\ WF_payVars(Tick)
    /\ WF_payVars(PayPrepare)
    /\ WF_payVars(PaySubscribe)
    /\ WF_payVars(PayPublish)
    /\ WF_payVars(PayHandle)
    /\ SF_payVars(PayCtxDone)

NextParse ==
    \/ CallParseNWCString /\ UNCHANGED <<mergeVars, threadEvents, fetchVars, pubVars, payVars, dmVars, renderVars, cacheVars, cmdVars, sessVars, setVars, replyVars, followVars>>
    \/ CallNewNWCClient /\ UNCHANGED <<mergeVars, threadEvents, fetchVars, pubVars, payVars, dmVars, renderVars, cacheVars, cmdVars, sessVars, setVars, replyVars, followVars>>

InitParseSpec == InitModel /\ InitFetch /\ InitPublish /\ InitPayDefault /\ InitParse /\ InitDM /\ InitRenderIdle /\ InitCache /\ InitCmd /\ InitSession /\ InitSettings /\ InitReply /\ InitFollowIdle

SpecParse == InitParseSpec /\ [][NextParse]_vars

\* ------------------------------------------------------------------ publishDMCmd

\* publishDMCmd up to the first PublishMany: the envelopes are built; a
\* failing gift wrap, encryption or signature ends the command with an
\* errMsg before anything is published.
DMBuild ==
    /\ dPc = "idle"
    /\ \E args \in DMArgs :
        /\ dArgs' = args
        /\ \/ \E e \in BuildErrors(args) :
                /\ inbox' = Append(inbox, ErrMsg(e, [relay |-> "", reason |-> "crypto"]))
                /\ dPc' = "done"
                /\ dWraps' = <<>>
           \/ /\ dWraps' = Envelopes(args)
              /\ dPc' = "built"
              /\ UNCHANGED inbox
    /\ dSent' = <<>>
    /\ dSuccessCount' = 0
    /\ dLastErr' = NoError
    /\ dAcked' = <<>>

\* pool.PublishMany on the next envelope and the loop over its results.
DMPublish ==
    /\ dPc = "built"
    /\ dWraps # <<>>
    /\ dSent' = Append(dSent, Head(dWraps))
    /\ dWraps' = Tail(dWraps)
    /\ \E out \in [DefaultRelays -> {"ok", "rejected", "none"}] :
        LET failed == {r \in DefaultRelays : out[r] = "rejected"}
        IN  /\ dSuccessCount' = dSuccessCount + Cardinality({r \in DefaultRelays : out[r] = "ok"})
            /\ dAcked' = Append(dAcked, {r \in DefaultRelays : out[r] = "ok"})
            /\ IF failed = {} THEN UNCHANGED dLastErr
               ELSE \E r \in failed : dLastErr' = ResultError(r, out[r])
    /\ UNCHANGED <<dPc, dArgs, inbox>>

\* The message publishDMCmd returns after its publishes.
DMReport(args, count, err) ==
    IF count = 0
    THEN IF err # NoError
         THEN ErrMsg(IF Len(Envelopes(args)) = 2 THEN "failed to publish NIP-17 DM"
                     ELSE "failed to publish NIP-04 DM", err)
         ELSE ErrMsg(IF Len(Envelopes(args)) = 2 THEN "failed to publish NIP-17 DM to any relay"
                     ELSE "failed to publish DM to any relay (no results)", NoError)
    ELSE [type |-> "publishSuccessMsg", eventID |-> "evt"]

\* Every envelope has been published: the command returns.
DMReturn ==
    /\ dPc = "built"
    /\ dWraps = <<>>
    /\ inbox' = Append(inbox, DMReport(dArgs, dSuccessCount, dLastErr))
    /\ dPc' = "done"
    /\ UNCHANGED <<dArgs, dWraps, dSent, dSuccessCount, dLastErr, dAcked>>

NextDM ==
    \/ DMBuild /\ UNCHANGED <<mergeVars, threadEvents, fPc, fKind, relayState, fSent, fEvents, pubVars, payVars, parseVars, renderVars, cacheVars, cmdVars, sessVars, setVars, replyVars, followVars>>
    \/ DMPublish /\ UNCHANGED <<mergeVars, threadEvents, fPc, fKind, relayState, fSent, fEvents, pubVars, payVars, parseVars, renderVars, cacheVars, cmdVars, sessVars, setVars, replyVars, followVars>>
    \/ DMReturn /\ UNCHANGED <<mergeVars, threadEvents, fPc, fKind, relayState, fSent, fEvents, pubVars, payVars, parseVars, renderVars, cacheVars, cmdVars, sessVars, setVars, replyVars, followVars>>

InitDMSpec == InitModel /\ InitFetch /\ InitPublish /\ InitPayDefault /\ InitParseIdle /\ InitDM /\ InitRenderIdle /\ InitCache /\ InitCmd /\ InitSession /\ InitSettings /\ InitReply /\ InitFollowIdle

SpecDM == InitDMSpec /\ [][NextDM]_vars

\* ------------------------------------------------------------------ rendering of DMs

\* The viewer: nsec with its private key, or Pleb Signer (which may fail to
\* answer).
Viewers == {[authMethod |-> "nsec", privKey |-> "sk", signerUp |-> FALSE],
            [authMethod |-> "pleb_signer", privKey |-> "", signerUp |-> TRUE],
            [authMethod |-> "pleb_signer", privKey |-> "", signerUp |-> FALSE]}

\* Tag lists of the events of the collection: none, one recipient, two
\* recipients, a short tag before the recipient.
ViewTagLists == {<<>>, <<<<"p", "alice">>>>, <<<<"p", "bob">>, <<"p", "alice">>>>,
                 <<<<"p">>, <<"p", "alice">>>>}

\* The content of an event: text that decrypts or unwraps for the viewer
\* with the named counterparty ("nobody": with no one).
ViewContents == {[with |-> "alice", plain |-> "hello"], [with |-> "nobody", plain |-> ""]}

ViewEventSet == [kind : {1, 4, 1059}, pubkey : {OwnPubKey, "alice"},
                 tags : ViewTagLists, content : ViewContents]

\* What is shown for an event: the content as it is, a decrypted plaintext,
\* or an error placeholder.
ShowContent(c) == [form |-> "content", plain |-> c.plain, with |-> c.with]
ShowPlain(text) == [form |-> "plaintext", plain |-> text, with |-> ""]
ShowError(what) == [form |-> "placeholder", plain |-> what, with |-> ""]

\* decryptDM: with the private key or through Pleb Signer, the content is
\* decrypted under the secret shared with otherPubkey.
DecryptDM(v, c, otherPubkey) ==
    IF v.authMethod = "nsec" /\ v.privKey # ""
    THEN [ok |-> c.with = otherPubkey, plain |-> IF c.with = otherPubkey THEN c.plain ELSE ""]
    ELSE [ok |-> v.signerUp /\ c.with = otherPubkey,
          plain |-> IF v.signerUp /\ c.with = otherPubkey THEN c.plain ELSE ""]

\* unwrapGiftWrapDM: only with the private key; the rumor's content.
UnwrapGiftWrapDM(v, evt) ==
    IF v.authMethod = "nsec" /\ v.privKey # ""
    THEN [ok |-> evt.content.with = evt.pubkey,
          plain |-> IF evt.content.with = evt.pubkey THEN evt.content.plain ELSE ""]
    ELSE [ok |-> FALSE, plain |-> ""]

\* The loop over evt.Tags: the value of the first p tag of length two.
RECURSIVE FirstPTag(_)
FirstPTag(tags) ==
    IF tags = <<>> THEN ""
    ELSE IF Len(Head(tags)) >= 2 /\ Head(tags)[1] = "p" THEN Head(tags)[2]
    ELSE FirstPTag(Tail(tags))

\* otherPubkey of a kind 4 event.
OtherPubkeyAlwaysAuthor(evt) == evt.pubkey
OtherPubkey(evt) == IF evt.pubkey = OwnPubKey THEN FirstPTag(evt.tags) ELSE evt.pubkey

\* displayContent of renderEvent.
DisplayContent(v, evt) ==
    IF evt.kind = 4
    THEN IF OtherPubkey(evt) # ""
         THEN LET d == DecryptDM(v, evt.content, OtherPubkey(evt))
              IN  IF d.ok THEN ShowPlain(d.plain) ELSE ShowError("NIP-04 Encrypted - Decrypt error")
         ELSE ShowContent(evt.content)
    ELSE IF evt.kind = 1059
    THEN LET u == UnwrapGiftWrapDM(v, evt)
         IN  IF u.ok THEN ShowPlain(u.plain) ELSE ShowError("NIP-17 Gift-wrap - Unwrap error")
    ELSE ShowContent(evt.content)

\* Any viewer and any collection, not yet rendered.
InitRender ==
    /\ viewer \in Viewers
    /\ viewEvents \in UNION {[1..n -> ViewEventSet] : n \in 0..MaxView}
    /\ rendered = <<>>

\* updateContent: every event of the collection is rendered, in order.
UpdateContent ==
    /\ rendered = <<>>
    /\ viewEvents # <<>>
    /\ rendered' = [i \in 1..Len(viewEvents) |-> DisplayContent(viewer, viewEvents[i])]
    /\ UNCHANGED <<viewer, viewEvents>>

NextRender ==
    \/ UpdateContent /\ UNCHANGED <<mergeVars, threadEvents, fetchVars, pubVars, payVars, parseVars, dmVars, cacheVars, cmdVars, sessVars, setVars, replyVars, followVars>>

InitRenderSpec == InitModel /\ InitFetch /\ InitPublish /\ InitPayDefault /\ InitParseIdle /\ InitDM /\ InitRender /\ InitCache /\ InitCmd /\ InitSession /\ InitSettings /\ InitReply /\ InitFollowIdle

SpecRender == InitRenderSpec /\ [][NextRender]_vars

\* ------------------------------------------------------------------ profile cache

\* profilesMsg.profiles: names for some pubkeys ("absent": not in the map).
ProfileMaps == [Pubkeys -> Names \cup {"absent"}]

\* Update receives a profilesMsg.
UpdateProfilesMsgBegin ==
    /\ ~crashed
    /\ uiPc = "idle"
    /\ \E profiles \in ProfileMaps :
          uiArg' = [kind |-> "profilesMsg", profiles |-> profiles, pubkey |-> ""]
    /\ uiPc' = "update"
    /\ UNCHANGED <<userCache, goroutines, crashed>>

\* case profilesMsg: every entry of the message is stored in the cache.
UpdateProfilesMsg ==
    /\ ~crashed
    /\ uiPc = "update"
    /\ userCache' = [k \in Pubkeys |->
                        IF uiArg.profiles[k] # "absent" THEN uiArg.profiles[k] ELSE userCache[k]]
    /\ uiPc' = "idle"
    /\ uiArg' = NoArg
    /\ UNCHANGED <<goroutines, crashed>>

\* updateContent reaches processContent with a content that mentions a pubkey.
ProcessContentBegin ==
    /\ ~crashed
    /\ uiPc = "idle"
    /\ \E pubkey \in Pubkeys :
          uiArg' = [kind |-> "mention", profiles |-> NoArg.profiles, pubkey |-> pubkey]
    /\ uiPc' = "render"
    /\ UNCHANGED <<userCache, goroutines, crashed>>

\* processContent: the cache is read, and a goroutine is started for a pubkey
\* that has no entry.
ProcessContent ==
    /\ ~crashed
    /\ uiPc = "render"
    /\ goroutines' =
          IF userCache[uiArg.pubkey] = "absent" /\ goroutines[uiArg.pubkey] < MaxGoroutines
          THEN [goroutines EXCEPT ![uiArg.pubkey] = @ + 1]
          ELSE goroutines
    /\ uiPc' = "idle"
    /\ uiArg' = NoArg
    /\ UNCHANGED <<userCache, crashed>>

\* fetchSingleProfile, running in its goroutine, got a profile with a name: it
\* stores the name in the cache. When the update loop is using the cache at
\* that moment the accesses are unsynchronised: the write may go through or
\* the runtime may end the process.
FetchSingleProfileStore ==
    /\ ~crashed
    /\ \E pubkey \in Pubkeys, displayName \in Names :
          /\ goroutines[pubkey] > 0
          /\ goroutines' = [goroutines EXCEPT ![pubkey] = @ - 1]
          /\ \/ /\ userCache' = [userCache EXCEPT ![pubkey] = displayName]
                /\ UNCHANGED crashed
             \/ /\ uiPc # "idle"
                /\ crashed' = TRUE
                /\ UNCHANGED userCache
    /\ UNCHANGED <<uiPc, uiArg>>

\* fetchSingleProfile got no profile, or one without a name, or panicked: it
\* ends without storing anything.
FetchSingleProfileEnd ==
    /\ ~crashed
    /\ \E pubkey \in Pubkeys :
          /\ goroutines[pubkey] > 0
          /\ goroutines' = [goroutines EXCEPT ![pubkey] = @ - 1]
    /\ UNCHANGED <<userCache, uiPc, uiArg, crashed>>

NextCache ==
    \/ UpdateProfilesMsgBegin /\ UNCHANGED <<mergeVars, threadEvents, fetchVars, pubVars, payVars, parseVars, dmVars, renderVars, cmdVars, sessVars, setVars, replyVars, followVars>>
    \/ UpdateProfilesMsg /\ UNCHANGED <<mergeVars, threadEvents, fetchVars, pubVars, payVars, parseVars, dmVars, renderVars, cmdVars, sessVars, setVars, replyVars, followVars>>
    \/ ProcessContentBegin /\ UNCHANGED <<mergeVars, threadEvents, fetchVars, pubVars, payVars, parseVars, dmVars, renderVars, cmdVars, sessVars, setVars, replyVars, followVars>>
    \/ ProcessContent /\ UNCHANGED <<mergeVars, threadEvents, fetchVars, pubVars, payVars, parseVars, dmVars, renderVars, cmdVars, sessVars, setVars, replyVars, followVars>>
    \/ FetchSingleProfileStore /\ UNCHANGED <<mergeVars, threadEvents, fetchVars, pubVars, payVars, parseVars, dmVars, renderVars, cmdVars, sessVars, setVars, replyVars, followVars>>
    \/ FetchSingleProfileEnd /\ UNCHANGED <<mergeVars, threadEvents, fetchVars, pubVars, payVars, parseVars, dmVars, renderVars, cmdVars, sessVars, setVars, replyVars, followVars>>

InitCacheSpec == InitModel /\ InitFetch /\ InitPublish /\ InitPayDefault /\ InitParseIdle /\ InitDM /\ InitRenderIdle /\ InitCache /\ InitCmd /\ InitSession /\ InitSettings /\ InitReply /\ InitFollowIdle

SpecCache == InitCacheSpec /\ [][NextCache]_vars

\* ------------------------------------------------------------------ commands and their results

FollowingMsg(following) == [type |-> "followingMsg", following |-> following, err |-> ""]
CmdErrMsg(err) == [type |-> "errMsg", following |-> <<>>, err |-> err]
CmdSuccessMsg == [type |-> "publishSuccessMsg", following |-> <<>>, err |-> ""]

\* The p tags of a contact list: tag[1] of every tag of length two named "p".
RECURSIVE PTagValues(_)
PTagValues(tags) ==
    IF tags = <<>> THEN <<>>
    ELSE IF Len(Head(tags)) >= 2 /\ Head(tags)[1] = "p"
         THEN <<Head(tags)[2]>> \o PTagValues(Tail(tags))
         ELSE PTagValues(Tail(tags))

\* Update returns fetchFollowingCmd or publishQuoteCmd and the runtime starts
\* it. publishQuoteCmd signs first and returns an error when that fails.
CmdStart ==
    /\ ~cmdCrashed
    /\ cmd.pc \in {"idle", "finished"}
    /\ cmd.started < MaxCommands
    /\ \E kind \in {"fetchFollowing", "publishQuote"}, signed \in BOOLEAN :
          /\ kind = "fetchFollowing" => signed
          /\ cmd' = [IdleCmd EXCEPT !.kind = kind, !.started = cmd.started + 1,
                                    !.pc = IF signed THEN "running" ELSE "returned"]
          /\ cmdMsg' = IF signed THEN NilMsg ELSE CmdErrMsg("failed to sign quote")
    /\ UNCHANGED <<delivered, cmdCrashed>>

\* fetchFollowingCmd: a nil event is skipped; the first contact list gives
\* the followed pubkeys and ends the loop.
FollowingRecv ==
    /\ ~cmdCrashed
    /\ cmd.kind = "fetchFollowing" /\ cmd.pc = "running"
    /\ cmd.received < MaxDeliveries
    /\ \/ /\ cmd' = [cmd EXCEPT !.received = @ + 1]
          /\ UNCHANGED cmdMsg
       \/ \E tags \in ViewTagLists :
             /\ cmd' = [cmd EXCEPT !.received = @ + 1, !.following = PTagValues(tags),
                                   !.pc = "returned"]
             /\ cmdMsg' = FollowingMsg(PTagValues(tags))
    /\ UNCHANGED <<delivered, cmdCrashed>>

\* fetchFollowingCmd: the channel is closed (end of stored events or the ten
\* seconds are over) before a contact list came.
FollowingClosed ==
    /\ ~cmdCrashed
    /\ cmd.kind = "fetchFollowing" /\ cmd.pc = "running"
    /\ cmd' = [cmd EXCEPT !.pc = "returned"]
    /\ cmdMsg' = FollowingMsg(cmd.following)
    /\ UNCHANGED <<delivered, cmdCrashed>>

\* publishQuoteCmd: one relay's publish result.
QuoteRecv ==
    /\ ~cmdCrashed
    /\ cmd.kind = "publishQuote" /\ cmd.pc = "running"
    /\ cmd.received < MaxDeliveries
    /\ \E ok \in BOOLEAN :
          cmd' = [cmd EXCEPT !.received = @ + 1,
                             !.successCount = IF ok THEN @ + 1 ELSE @,
                             !.lastErr = IF ok THEN @
                                          ELSE [relay |-> "relay", reason |-> "relay error"]]
    /\ UNCHANGED <<cmdMsg, delivered, cmdCrashed>>

\* publishQuoteCmd: the results are over; success when a relay accepted.
QuoteReturn ==
    /\ ~cmdCrashed
    /\ cmd.kind = "publishQuote" /\ cmd.pc = "running"
    /\ cmd' = [cmd EXCEPT !.pc = "returned"]
    /\ cmdMsg' = IF cmd.successCount = 0
                 THEN IF cmd.lastErr # NoError
                      THEN CmdErrMsg("failed to publish quote: relay error")
                      ELSE CmdErrMsg("failed to publish quote to any relay")
                 ELSE CmdSuccessMsg
    /\ UNCHANGED <<delivered, cmdCrashed>>

\* A relay operation panics inside the command. fetchFollowingCmd recovers
\* in its deferred function and returns the zero tea.Msg, nil;
\* publishQuoteCmd has no deferred recover and the panic leaves its goroutine.
RelayPanic ==
    /\ ~cmdCrashed
    /\ cmd.pc = "running"
    /\ IF cmd.kind = "fetchFollowing"
       THEN /\ cmd' = [cmd EXCEPT !.pc = "returned"]
            /\ cmdMsg' = NilMsg
            /\ UNCHANGED cmdCrashed
       ELSE /\ cmd' = [cmd EXCEPT !.pc = "panicked"]
            /\ cmdCrashed' = TRUE
            /\ UNCHANGED cmdMsg
    /\ UNCHANGED delivered

\* The runtime hands the returned message to Update; a nil message is no
\* message and nothing is handed over.
Deliver ==
    /\ ~cmdCrashed
    /\ cmd.pc = "returned"
    /\ delivered' = IF cmdMsg = NilMsg THEN delivered ELSE Append(delivered, cmdMsg)
    /\ cmd' = [cmd EXCEPT !.pc = "finished"]
    /\ UNCHANGED <<cmdMsg, cmdCrashed>>

NextCmd ==
    \/ CmdStart /\ UNCHANGED <<mergeVars, threadEvents, fetchVars, pubVars, payVars, parseVars, dmVars, renderVars, cacheVars, sessVars, setVars, replyVars, followVars>>
    \/ FollowingRecv /\ UNCHANGED <<mergeVars, threadEvents, fetchVars, pubVars, payVars, parseVars, dmVars, renderVars, cacheVars, sessVars, setVars, replyVars, followVars>>
    \/ FollowingClosed /\ UNCHANGED <<mergeVars, threadEvents, fetchVars, pubVars, payVars, parseVars, dmVars, renderVars, cacheVars, sessVars, setVars, replyVars, followVars>>
    \/ QuoteRecv /\ UNCHANGED <<mergeVars, threadEvents, fetchVars, pubVars, payVars, parseVars, dmVars, renderVars, cacheVars, sessVars, setVars, replyVars, followVars>>
    \/ QuoteReturn /\ UNCHANGED <<mergeVars, threadEvents, fetchVars, pubVars, payVars, parseVars, dmVars, renderVars, cacheVars, sessVars, setVars, replyVars, followVars>>
    \/ RelayPanic /\ UNCHANGED <<mergeVars, threadEvents, fetchVars, pubVars, payVars, parseVars, dmVars, renderVars, cacheVars, sessVars, setVars, replyVars, followVars>>
    \/ Deliver /\ UNCHANGED <<mergeVars, threadEvents, fetchVars, pubVars, payVars, parseVars, dmVars, renderVars, cacheVars, sessVars, setVars, replyVars, followVars>>

InitCmdSpec == InitModel /\ InitFetch /\ InitPublish /\ InitPayDefault /\ InitParseIdle /\ InitDM /\ InitRenderIdle /\ InitCache /\ InitCmd /\ InitSession /\ InitSettings /\ InitReply /\ InitFollowIdle

SpecCmd == InitCmdSpec /\ [][NextCmd]_vars

\* The channels of a command are closed at the latest when its ten seconds
\* are over, and the runtime hands over what a command returns.
FairSpecCmd ==
    /\ SpecCmd
    /\ WF_cmdVars(FollowingClosed)
    /\ WF_cmdVars(QuoteReturn)
    /\ WF_cmdVars(Deliver)

\* ------------------------------------------------------------------ session

\* The event lists the relays serve in a session: notes for the timeline, a
\* direct message, a mention.
TimelineLists == {<<>>, <<EventOf(3), EventOf(1)>>}
DMLists == {<<>>, <<EventOf(2)>>}
NotificationLists == {<<>>, <<EventOf(3)>>}

\* fetchThreadCmd asks for the notes with an e tag of the root's id: a reply
\* to the root, with that tag, and the lists a fetch for the root brings.
ReplyTo(root) == [ID |-> root + MaxId, CreatedAt |-> CreatedAtOf(root) + 1, e |-> root]
ThreadLists(root) == {<<>>, <<ReplyTo(root)>>}

Status(text) == [text |-> text, new |-> 0, total |-> 0]

\* getCurrentEvents
GetCurrentEvents ==
    IF currentView = "dms" THEN dms
    ELSE IF currentView = "notifications" THEN notifications
    ELSE events

\* The key handlers of the normal mode run in every state but the landing,
\* settings, thread and composing states.
NormalMode == ~panicked /\ state \notin {"thread", "composing"}

\* len(currentEvents) > 0 && m.cursor < len(currentEvents)
HasSelection == Len(GetCurrentEvents) > 0 /\ cursor < Len(GetCurrentEvents)

\* evt := currentEvents[m.cursor] panics for a negative cursor.
SelectionPanics == HasSelection /\ cursor < 0

Selected == GetCurrentEvents[cursor + 1]

\* The commands a call of Update returns are started. fetchProfilesCmd is
\* not kept among the running commands: its answer changes the profile cache
\* only. The running fetchThreadCmd are kept with their roots, in threadFetches.
Tracked(cmds) == cmds \ {"fetchProfiles", "fetchThread"}

\* The commands explored in flight together: at most MaxRunning of them, or
\* at most MaxThreads fetchThreadCmd and nothing else.
Fits(commands, roots) ==
    \/ Cardinality(commands) + Cardinality(roots) <= MaxRunning
    \/ commands = {} /\ Cardinality(roots) <= MaxThreads

Returns(cmds) ==
    /\ Fits(running \cup Tracked(cmds), threadFetches)
    /\ running' = running \cup Tracked(cmds)
    /\ lastCmd' = cmds

\* The same, for the handler of the answer of the command c.
Answers(c, cmds) ==
    /\ Fits((running \ {c}) \cup Tracked(cmds), threadFetches)
    /\ running' = (running \ {c}) \cup Tracked(cmds)
    /\ lastCmd' = cmds

\* Update panics while it handles a key: it returns nothing.
UpdatePanics(key) ==
    /\ panicked' = TRUE
    /\ lastMsg' = key
    /\ lastCmd' = {}
    /\ UNCHANGED <<state, currentView, cursor, composing, replyingTo, threadRoot,
                   running, statusMsg>>

\* case "c"
KeyC ==
    /\ NormalMode
    /\ lastMsg' = "c"
    /\ state' = "composing"
    /\ composing' = "post"
    /\ replyingTo' = NoEvent
    /\ statusMsg' = Status("Composing new post")
    /\ Returns({})
    /\ UNCHANGED <<currentView, cursor, threadRoot, panicked>>

\* case "R"
KeyReply ==
    /\ NormalMode
    /\ IF SelectionPanics THEN UpdatePanics("R")
       ELSE /\ lastMsg' = "R"
            /\ IF HasSelection
               THEN /\ state' = "composing"
                    /\ replyingTo' = Selected
                    /\ composing' = IF currentView = "dms" THEN "dm" ELSE "reply"
                    /\ statusMsg' = Status("Replying to @")
               ELSE UNCHANGED <<state, replyingTo, composing, statusMsg>>
            /\ Returns({})
            /\ UNCHANGED <<currentView, cursor, threadRoot, panicked>>

\* case "tab"
KeyTab ==
    /\ NormalMode
    /\ lastMsg' = "tab"
    /\ cursor' = 0
    /\ currentView' = IF currentView = "following" THEN "dms"
                      ELSE IF currentView = "dms" THEN "notifications"
                      ELSE "following"
    /\ IF currentView = "following" /\ Len(dms) = 0
       THEN statusMsg' = Status("Loading DMs...") /\ Returns({"fetchDMs"})
       ELSE IF currentView = "dms" /\ Len(notifications) = 0
       THEN statusMsg' = Status("Loading notifications...") /\ Returns({"fetchNotifications"})
       ELSE UNCHANGED statusMsg /\ Returns({})
    /\ UNCHANGED <<state, composing, replyingTo, threadRoot, panicked>>

\* case "r"
KeyRefresh ==
    /\ NormalMode
    /\ lastMsg' = "r"
    /\ IF currentView = "following"
       THEN statusMsg' = Status("Refreshing...") /\ Returns({"fetchEvents"})
       ELSE UNCHANGED statusMsg /\ Returns({})
    /\ UNCHANGED <<state, currentView, cursor, composing, replyingTo, threadRoot, panicked>>

\* case "x"
KeyRepost ==
    /\ NormalMode
    /\ IF SelectionPanics THEN UpdatePanics("x")
       ELSE /\ lastMsg' = "x"
            /\ IF HasSelection /\ currentView # "dms"
               THEN statusMsg' = Status("Reposting...") /\ Returns({"repost"})
               ELSE UNCHANGED statusMsg /\ Returns({})
            /\ UNCHANGED <<state, currentView, cursor, composing, replyingTo, threadRoot,
                           panicked>>

\* case "X"
KeyQuote ==
    /\ NormalMode
    /\ IF SelectionPanics THEN UpdatePanics("X")
       ELSE /\ lastMsg' = "X"
            /\ IF HasSelection /\ currentView # "dms"
               THEN /\ state' = "composing"
                    /\ composing' = "quote"
                    /\ replyingTo' = Selected
                    /\ statusMsg' = Status("Quote reposting @")
               ELSE UNCHANGED <<state, composing, replyingTo, statusMsg>>
            /\ Returns({})
            /\ UNCHANGED <<currentView, cursor, threadRoot, panicked>>

\* case "g" and case "G"
KeyTopBottom ==
    /\ NormalMode
    /\ lastMsg' = "cursor key"
    /\ \/ cursor' = 0
       \/ cursor' = IF Len(GetCurrentEvents) > 0 THEN Len(GetCurrentEvents) - 1 ELSE cursor
    /\ Returns({})
    /\ UNCHANGED <<state, currentView, composing, replyingTo, threadRoot, panicked, statusMsg>>

\* case "t"
KeyThread ==
    /\ NormalMode
    /\ IF SelectionPanics THEN UpdatePanics("t") /\ UNCHANGED threadFetches
       ELSE /\ lastMsg' = "t"
            /\ IF HasSelection /\ currentView # "dms"
               THEN /\ state' = "thread"
                    /\ threadRoot' = Selected
                    /\ statusMsg' = Status("Loading thread...")
                    /\ Returns({"fetchThread"})
                    /\ Fits(running, threadFetches \cup {Selected.ID})
                    /\ threadFetches' = threadFetches \cup {Selected.ID}
               ELSE UNCHANGED <<state, threadRoot, statusMsg, threadFetches>> /\ Returns({})
            /\ UNCHANGED <<currentView, cursor, composing, replyingTo, panicked>>

\* case "up", "k" and case "down", "j"
KeyUpDown ==
    /\ NormalMode
    /\ lastMsg' = "cursor key"
    /\ \/ cursor' = IF cursor > 0 THEN cursor - 1 ELSE cursor
       \/ cursor' = IF cursor < Len(GetCurrentEvents) - 1 THEN cursor + 1 ELSE cursor
    /\ Returns({})
    /\ UNCHANGED <<state, currentView, composing, replyingTo, threadRoot, panicked, statusMsg>>

\* case "pgup", "b" and case "pgdown", "f", " ": the cursor moves by a step
\* that depends on the height of the viewport and is at least one.
KeyPage ==
    /\ NormalMode
    /\ lastMsg' = "cursor key"
    /\ \E step \in 1..MaxStep :
          \/ cursor' = IF cursor - step < 0 THEN 0 ELSE cursor - step
          \/ cursor' = IF cursor + step >= Len(GetCurrentEvents)
                       THEN Len(GetCurrentEvents) - 1 ELSE cursor + step
    /\ Returns({})
    /\ UNCHANGED <<state, currentView, composing, replyingTo, threadRoot, panicked, statusMsg>>

\* Thread mode: "esc", "q" leave the thread, "R" replies to its root (the
\* other keys scroll the viewport only).
KeyInThread ==
    /\ ~panicked
    /\ state = "thread"
    /\ \/ /\ lastMsg' = "esc"
          /\ state' = "timeline"
          /\ threadRoot' = NoEvent
          /\ threadEvents' = <<>>
          /\ statusMsg' = Status("Back to timeline")
          /\ UNCHANGED <<composing, replyingTo>>
       \/ /\ lastMsg' = "R"
          /\ state' = "composing"
          /\ composing' = "reply"
          /\ replyingTo' = threadRoot
          /\ statusMsg' = Status("Replying to @")
          /\ UNCHANGED <<threadRoot, threadEvents>>
    /\ Returns({})
    /\ UNCHANGED <<currentView, cursor, panicked>>

\* Composing mode, "esc": cancel.
KeyCancel ==
    /\ ~panicked
    /\ state = "composing"
    /\ lastMsg' = "esc"
    /\ state' = "timeline"
    /\ replyingTo' = NoEvent
    /\ statusMsg' = Status("Cancelled")
    /\ Returns({})
    /\ UNCHANGED <<currentView, cursor, composing, threadRoot, panicked>>

\* Composing mode, "ctrl+s": the text of the text area is submitted (the
\* keys that only edit the text are not steps of the session).
KeySubmit ==
    /\ ~panicked
    /\ state = "composing"
    /\ lastMsg' = "ctrl+s"
    /\ \E content \in {"", "hello"} :
          IF content = ""
          THEN /\ statusMsg' = Status("Cannot send empty message")
               /\ Returns({})
               /\ UNCHANGED state
          ELSE /\ state' = "timeline"
               /\ IF composing = "post"
                  THEN statusMsg' = Status("Publishing post...") /\ Returns({"publishPost"})
                  ELSE IF composing = "reply"
                  THEN statusMsg' = Status("Publishing reply...") /\ Returns({"publishPost"})
                  ELSE IF composing = "quote"
                  THEN statusMsg' = Status("Publishing quote...") /\ Returns({"publishQuote"})
                  ELSE IF replyingTo = NoEvent
                  THEN statusMsg' = Status("Error: No DM recipient") /\ Returns({})
                  ELSE statusMsg' = Status("Sending DM...") /\ Returns({"publishDM"})
    /\ UNCHANGED <<currentView, cursor, composing, replyingTo, threadRoot, panicked>>

\* case followingMsg
UpdateFollowingMsg ==
    /\ ~panicked
    /\ "fetchFollowing" \in running
    /\ lastMsg' = "followingMsg"
    /\ state' = "timeline"
    /\ \E text \in {"No following list found. Showing global feed.", "Connected. Following"} :
          statusMsg' = Status(text)
    /\ Answers("fetchFollowing", {"fetchEvents", "fetchProfiles"})
    /\ UNCHANGED <<currentView, cursor, composing, replyingTo, threadRoot, panicked,
                   events, dms, notifications, lastEventTime, lastDMTime, lastNotifTime,
                   threadEvents>>

\* case eventsMsg, case dmsMsg, case notificationsMsg: the merge; the last
\* two ask for the profiles that are not in the cache.
UpdateFetched ==
    /\ ~panicked
    /\ \/ /\ "fetchEvents" \in running
          /\ lastMsg' = "eventsMsg"
          /\ \E incoming \in TimelineLists :
             \E o \in MergeOutcomesOf(events, incoming, lastEventTime) :
                /\ events' = o.slice
                /\ lastEventTime' = o.last
                /\ statusMsg' = MergeStatus("posts", o.newCount, Len(o.slice))
          /\ Answers("fetchEvents", {})
          /\ UNCHANGED <<dms, notifications, lastDMTime, lastNotifTime>>
       \/ /\ "fetchDMs" \in running
          /\ lastMsg' = "dmsMsg"
          /\ \E incoming \in DMLists :
             \E o \in MergeOutcomesOf(dms, incoming, lastDMTime) :
                /\ dms' = o.slice
                /\ lastDMTime' = o.last
                /\ statusMsg' = MergeStatus("DMs", o.newCount, Len(o.slice))
                /\ Answers("fetchDMs", IF Len(o.slice) > 0 THEN {"fetchProfiles"} ELSE {})
          /\ UNCHANGED <<events, notifications, lastEventTime, lastNotifTime>>
       \/ /\ "fetchNotifications" \in running
          /\ lastMsg' = "notificationsMsg"
          /\ \E incoming \in NotificationLists :
             \E o \in MergeOutcomesOf(notifications, incoming, lastNotifTime) :
                /\ notifications' = o.slice
                /\ lastNotifTime' = o.last
                /\ statusMsg' = MergeStatus("notifications", o.newCount, Len(o.slice))
                /\ Answers("fetchNotifications",
                           IF Len(o.slice) > 0 THEN {"fetchProfiles"} ELSE {})
          /\ UNCHANGED <<events, dms, lastEventTime, lastDMTime>>
    /\ UNCHANGED <<state, currentView, cursor, composing, replyingTo, threadRoot, panicked,
                   threadEvents>>

\* case threadEventsMsg
UpdateThreadEventsMsg ==
    /\ ~panicked
    /\ lastMsg' = "threadEventsMsg"
    /\ \E root \in threadFetches :
          /\ threadFetches' = threadFetches \ {root}
          /\ \E incoming \in ThreadLists(root) : threadEvents' = incoming
    /\ statusMsg' = Status("Thread loaded")
    /\ Returns({})
    /\ UNCHANGED <<state, currentView, cursor, composing, replyingTo, threadRoot, panicked,
                   events, dms, notifications, lastEventTime, lastDMTime, lastNotifTime>>

PublishCommands == {"publishPost", "publishQuote", "publishDM", "repost"}

\* What signs the event of a publish command: publishPostCmd and publishDMCmd
\* take authMethod and privKey and branch on them, repostCmd and
\* publishQuoteCmd take the Pleb Signer only and call signer.SignEvent.
SignedBy(c, method) ==
    IF c \in {"publishPost", "publishDM"} /\ method = "nsec"
    THEN "private key"
    ELSE "Pleb Signer"

\* case nsecAuthMsg and case pubKeyMsg: the connect command answers with
\* the public key, which may be empty.
UpdateAuthMsg ==
    /\ ~panicked
    /\ "connect" \in running
    /\ lastMsg' = (IF authMethod = "nsec" THEN "nsecAuthMsg" ELSE "pubKeyMsg")
    /\ \E key \in {"", "pk"} :
          /\ pubKey' = key
          /\ IF key = ""
             THEN /\ state' = "error"
                  /\ Answers("connect", {})
                  /\ UNCHANGED statusMsg
             ELSE /\ state' = "loadingFollows"
                  /\ statusMsg' = Status(IF authMethod = "nsec"
                                         THEN "Authenticated with nsec! Loading..."
                                         ELSE "Loading following list...")
                  /\ Answers("connect", {"fetchFollowing"})
    /\ UNCHANGED <<currentView, cursor, composing, replyingTo, threadRoot, panicked,
                   events, dms, notifications, lastEventTime, lastDMTime, lastNotifTime,
                   threadEvents, threadFetches>>

\* case errMsg: a connect command or a publish command answers with an
\* error.
UpdateErrMsg ==
    /\ ~panicked
    /\ \E c \in (PublishCommands \cup {"connect"}) \cap running : Answers(c, {})
    /\ lastMsg' = "errMsg"
    /\ state' = "error"
    /\ UNCHANGED <<currentView, cursor, composing, replyingTo, threadRoot, panicked,
                   events, dms, notifications, lastEventTime, lastDMTime, lastNotifTime,
                   threadEvents, statusMsg>>

\* strings.Contains(m.statusMsg, ...), in the order of the if chain: what the
\* success status says was done.
PublishedAction(text) ==
    IF text = "Reposting..." THEN "Reposted"
    ELSE IF text = "Publishing quote..." THEN "Quote published"
    ELSE IF text = "Publishing reply..." THEN "Reply sent"
    ELSE IF text \in {"Sending DM...", "Loading DMs...", "Loaded new DMs", "No new DMs",
                      "Error: No DM recipient", "DM sent"}
    THEN "DM sent"
    ELSE "Published"

\* case publishSuccessMsg: the status (publishDMCmd brings its own), replyingTo
\* = nil, and a fetch for the current view.
UpdatePublishSuccessMsg ==
    /\ ~panicked
    /\ lastMsg' = "publishSuccessMsg"
    /\ replyingTo' = NoEvent
    /\ \E c \in PublishCommands \cap running :
          /\ statusMsg' = IF c = "publishDM" THEN Status("DM sent")
                          ELSE Status(PublishedAction(statusMsg.text))
          /\ Answers(c, {IF currentView = "dms" THEN "fetchDMs"
                         ELSE IF currentView = "notifications" THEN "fetchNotifications"
                         ELSE "fetchEvents"})
    /\ UNCHANGED <<state, currentView, cursor, composing, threadRoot, panicked,
                   events, dms, notifications, lastEventTime, lastDMTime, lastNotifTime,
                   threadEvents>>

AuthRest == <<authMethod, fetchVars, pubVars, payVars, parseVars, dmVars, renderVars, cacheVars, cmdVars, setVars, replyVars, followVars>>
SessionRest == <<pubKey, AuthRest>>
SessionData == <<events, dms, notifications, lastEventTime, lastDMTime, lastNotifTime,
                 threadEvents>>

NextSession ==
    \/ KeyC /\ UNCHANGED <<threadFetches, SessionData, SessionRest>>
    \/ KeyReply /\ UNCHANGED <<threadFetches, SessionData, SessionRest>>
    \/ KeyTab /\ UNCHANGED <<threadFetches, SessionData, SessionRest>>
    \/ KeyRefresh /\ UNCHANGED <<threadFetches, SessionData, SessionRest>>
    \/ KeyRepost /\ UNCHANGED <<threadFetches, SessionData, SessionRest>>
    \/ KeyQuote /\ UNCHANGED <<threadFetches, SessionData, SessionRest>>
    \/ KeyTopBottom /\ UNCHANGED <<threadFetches, SessionData, SessionRest>>
    \/ KeyThread /\ UNCHANGED <<SessionData, SessionRest>>
    \/ KeyUpDown /\ UNCHANGED <<threadFetches, SessionData, SessionRest>>
    \/ KeyPage /\ UNCHANGED <<threadFetches, SessionData, SessionRest>>
    \/ KeyInThread /\ UNCHANGED <<threadFetches, events, dms, notifications, lastEventTime, lastDMTime, lastNotifTime, SessionRest>>
    \/ KeyCancel /\ UNCHANGED <<threadFetches, SessionData, SessionRest>>
    \/ KeySubmit /\ UNCHANGED <<threadFetches, SessionData, SessionRest>>
    \/ UpdateFollowingMsg /\ UNCHANGED <<threadFetches, SessionRest>>
    \/ UpdateFetched /\ UNCHANGED <<threadFetches, SessionRest>>
    \/ UpdateThreadEventsMsg /\ UNCHANGED SessionRest
    \/ UpdateErrMsg /\ UNCHANGED <<threadFetches, SessionRest>>
    \/ UpdatePublishSuccessMsg /\ UNCHANGED <<threadFetches, SessionRest>>

InitSessionSpec == InitModel /\ InitFetch /\ InitPublish /\ InitPayDefault /\ InitParseIdle /\ InitDM /\ InitRenderIdle /\ InitCache /\ InitCmd /\ InitSessionAny /\ InitSettings /\ InitReply /\ InitFollowIdle

SpecSession == InitSessionSpec /\ [][NextSession]_vars

\* The session from the connecting state on: the answer of the connect
\* command, and the keys and messages that compose and publish a post.
NextConnect ==
    \/ UpdateAuthMsg /\ UNCHANGED AuthRest
    \/ KeyC /\ UNCHANGED <<threadFetches, SessionData, SessionRest>>
    \/ KeyTab /\ UNCHANGED <<threadFetches, SessionData, SessionRest>>
    \/ KeyRefresh /\ UNCHANGED <<threadFetches, SessionData, SessionRest>>
    \/ KeyCancel /\ UNCHANGED <<threadFetches, SessionData, SessionRest>>
    \/ KeySubmit /\ UNCHANGED <<threadFetches, SessionData, SessionRest>>
    \/ UpdateFollowingMsg /\ UNCHANGED <<threadFetches, SessionRest>>
    \/ UpdateFetched /\ UNCHANGED <<threadFetches, SessionRest>>
    \/ UpdateErrMsg /\ UNCHANGED <<threadFetches, SessionRest>>
    \/ UpdatePublishSuccessMsg /\ UNCHANGED <<threadFetches, SessionRest>>

InitConnectSpec == InitModel /\ InitFetch /\ InitPublish /\ InitPayDefault /\ InitParseIdle /\ InitDM /\ InitRenderIdle /\ InitCache /\ InitCmd /\ InitConnecting /\ InitSettings /\ InitReply /\ InitFollowIdle

SpecConnect == InitConnectSpec /\ [][NextConnect]_vars

\* ------------------------------------------------------------------ settings

\* The keys of the settings screen that move in its menus and edit the relay
\* list. ("enter" in the menus chooses the authentication or connects, "q"
\* and "esc" go back to the landing screen: they leave the relay list alone.)

\* What a key press brings while a new relay is typed.
Characters == {" ", "w"}

\* strings.TrimSpace
RECURSIVE TrimLeft(_)
TrimLeft(s) == IF s # <<>> /\ Head(s) = " " THEN TrimLeft(Tail(s)) ELSE s

RECURSIVE TrimRight(_)
TrimRight(s) ==
    IF s # <<>> /\ s[Len(s)] = " " THEN TrimRight(SubSeq(s, 1, Len(s) - 1)) ELSE s

TrimSpace(s) == TrimRight(TrimLeft(s))

\* append(m.relays[:i], m.relays[i+1:]...), i counted from 0
RemoveAt(s, i) == SubSeq(s, 1, i) \o SubSeq(s, i + 2, Len(s))

Handles(key) ==
    /\ settingsKey' = key
    /\ prevRelays' = relays

\* editingRelay, case "esc"
EditEsc ==
    /\ editingRelay
    /\ Handles("esc")
    /\ editingRelay' = FALSE
    /\ newRelayInput' = <<>>
    /\ UNCHANGED <<relays, settingsMenu, settingsCursor>>

\* editingRelay, case "enter"
EditEnter ==
    /\ editingRelay
    /\ Handles("enter")
    /\ IF TrimSpace(newRelayInput) # <<>>
       THEN /\ Len(relays) < MaxRelays
            /\ relays' = Append(relays, TrimSpace(newRelayInput))
            /\ newRelayInput' = <<>>
            /\ editingRelay' = FALSE
       ELSE UNCHANGED <<relays, newRelayInput, editingRelay>>
    /\ UNCHANGED <<settingsMenu, settingsCursor>>

\* editingRelay, case "backspace"
EditBackspace ==
    /\ editingRelay
    /\ Handles("backspace")
    /\ newRelayInput' = IF Len(newRelayInput) > 0
                        THEN SubSeq(newRelayInput, 1, Len(newRelayInput) - 1)
                        ELSE newRelayInput
    /\ UNCHANGED <<relays, settingsMenu, settingsCursor, editingRelay>>

\* editingRelay, default: the input is appended.
EditInput ==
    /\ editingRelay
    /\ Len(newRelayInput) < MaxInput
    /\ Handles("input")
    /\ \E input \in Characters : newRelayInput' = Append(newRelayInput, input)
    /\ UNCHANGED <<relays, settingsMenu, settingsCursor, editingRelay>>

\* case "tab"
SettingsTab ==
    /\ ~editingRelay
    /\ Handles("tab")
    /\ settingsMenu' = IF settingsMenu = 0 THEN 1 ELSE 0
    /\ settingsCursor' = 0
    /\ UNCHANGED <<relays, editingRelay, newRelayInput>>

\* case "up", "k"
SettingsUp ==
    /\ ~editingRelay
    /\ Handles("up")
    /\ settingsCursor' = IF settingsCursor > 0 THEN settingsCursor - 1 ELSE settingsCursor
    /\ UNCHANGED <<relays, settingsMenu, editingRelay, newRelayInput>>

\* case "down", "j"
SettingsDown ==
    /\ ~editingRelay
    /\ Handles("down")
    /\ settingsCursor' =
          IF settingsMenu = 1 /\ settingsCursor < Len(relays) - 1 THEN settingsCursor + 1
          ELSE IF settingsMenu = 0 /\ settingsCursor < 1 THEN settingsCursor + 1
          ELSE settingsCursor
    /\ UNCHANGED <<relays, settingsMenu, editingRelay, newRelayInput>>

\* case "a"
SettingsAdd ==
    /\ ~editingRelay
    /\ Handles("a")
    /\ IF settingsMenu = 1
       THEN editingRelay' = TRUE /\ newRelayInput' = <<>>
       ELSE UNCHANGED <<editingRelay, newRelayInput>>
    /\ UNCHANGED <<relays, settingsMenu, settingsCursor>>

\* case "d", "x", deleting whenever the cursor is on a relay.
SettingsDeleteAny ==
    /\ ~editingRelay
    /\ Handles("d")
    /\ IF settingsMenu = 1 /\ settingsCursor < Len(relays)
       THEN /\ relays' = RemoveAt(relays, settingsCursor)
            /\ settingsCursor' = IF settingsCursor >= Len(relays')
                                 THEN Len(relays') - 1 ELSE settingsCursor
       ELSE UNCHANGED <<relays, settingsCursor>>
    /\ UNCHANGED <<settingsMenu, editingRelay, newRelayInput>>

\* case "d", "x"
SettingsDelete ==
    /\ ~editingRelay
    /\ Handles("d")
    /\ IF settingsMenu = 1 /\ settingsCursor < Len(relays) /\ Len(relays) > 1
       THEN /\ relays' = RemoveAt(relays, settingsCursor)
            /\ settingsCursor' = IF settingsCursor >= Len(relays')
                                 THEN Len(relays') - 1 ELSE settingsCursor
       ELSE UNCHANGED <<relays, settingsCursor>>
    /\ UNCHANGED <<settingsMenu, editingRelay, newRelayInput>>

SettingsRest == <<mergeVars, threadEvents, fetchVars, pubVars, payVars, parseVars, dmVars, renderVars, cacheVars, cmdVars, sessVars, replyVars, followVars>>

NextSettings ==
    \/ EditEsc /\ UNCHANGED SettingsRest
    \/ EditEnter /\ UNCHANGED SettingsRest
    \/ EditBackspace /\ UNCHANGED SettingsRest
    \/ EditInput /\ UNCHANGED SettingsRest
    \/ SettingsTab /\ UNCHANGED SettingsRest
    \/ SettingsUp /\ UNCHANGED SettingsRest
    \/ SettingsDown /\ UNCHANGED SettingsRest
    \/ SettingsAdd /\ UNCHANGED SettingsRest
    \/ SettingsDelete /\ UNCHANGED SettingsRest

InitSettingsSpec == InitModel /\ InitFetch /\ InitPublish /\ InitPayDefault /\ InitParseIdle /\ InitDM /\ InitRenderIdle /\ InitCache /\ InitCmd /\ InitSession /\ InitSettings /\ InitReply /\ InitFollowIdle

SpecSettings == InitSettingsSpec /\ [][NextSettings]_vars

\* ------------------------------------------------------------------ reply tags

\* The ids of the notes of a conversation, in the order they are composed,
\* and who writes them.
NoteIds == <<"n1", "n2", "n3", "n4", "n5", "n6">>
Authors == {"alice", "bob"}

\* The first tag of replyTo.Tags with len(tag) >= 2 && tag[0] == "e", if any.
RECURSIVE FirstETag(_)
FirstETag(tags) ==
    IF tags = <<>> THEN <<>>
    ELSE IF Len(Head(tags)) >= 2 /\ Head(tags)[1] = "e" THEN Head(tags)
    ELSE FirstETag(Tail(tags))

\* The tags publishPostCmd gives a reply to replyTo.
ReplyTags(replyTo) ==
    << <<"e", replyTo.ID, "", "reply">>, <<"p", replyTo.PubKey>> >>
        \o (IF FirstETag(replyTo.Tags) # <<>>
            THEN << <<"e", FirstETag(replyTo.Tags)[2], "", "root">> >>
            ELSE <<>>)

\* publishPostCmd with replyTo = nil ("c") or replyTo = a note of the
\* conversation ("R"); replyTo is kept with the note as the index of that note.
ComposePost ==
    /\ Len(posts) < MaxPosts
    /\ \E author \in Authors :
       \E parent \in 0..Len(posts) :
          posts' = Append(posts,
                          [ID |-> NoteIds[Len(posts) + 1],
                           PubKey |-> author,
                           Tags |-> IF parent = 0 THEN <<>> ELSE ReplyTags(posts[parent]),
                           replyTo |-> parent])

ReplyRest == <<mergeVars, threadEvents, fetchVars, pubVars, payVars, parseVars, dmVars, renderVars, cacheVars, cmdVars, sessVars, setVars, followVars>>

NextReply ==
    \/ ComposePost /\ UNCHANGED ReplyRest

InitReplySpec == InitModel /\ InitFetch /\ InitPublish /\ InitPayDefault /\ InitParseIdle /\ InitDM /\ InitRenderIdle /\ InitCache /\ InitCmd /\ InitSession /\ InitSettings /\ InitReply /\ InitFollowIdle

SpecReply == InitReplySpec /\ [][NextReply]_vars

\* ------------------------------------------------------------------ fetchFollowingCmd

\* The kind-3 events of the user the relays may store: an older and a newer
\* contact list. A relay answers with one of them, with nothing, or an
\* incoming event without an event comes from it.
ContactLists ==
    {[kind |-> "list", CreatedAt |-> 1, Tags |-> << <<"p", "alice">> >>],
     [kind |-> "list", CreatedAt |-> 2,
      Tags |-> << <<"p", "bob">>, <<"e", "n1">>, <<"p", "carol">> >>]}

RelayAnswers == ContactLists \cup {NoAnswer, NilAnswer}

\* pool.SubManyEose(ctx, relays, filter) is called: every relay that has an
\* answer will send it into the events channel.
InitFollow ==
    /\ contactLists \in [DefaultRelays -> RelayAnswers]
    /\ undelivered = {r \in DefaultRelays : contactLists[r] # NoAnswer}
    /\ followPc = "running"
    /\ followed = <<>>
    /\ followFrom = "none"

\* for event := range events, event.Event == nil: continue. The relays'
\* answers come out of the channel in the order the relays send them.
FollowSkipNil ==
    /\ followPc = "running"
    /\ \E r \in undelivered :
          /\ contactLists[r] = NilAnswer
          /\ undelivered' = undelivered \ {r}
    /\ UNCHANGED <<contactLists, followPc, followed, followFrom>>

\* for event := range events: the p tags of the event are appended to
\* following, and break.
FollowTake ==
    /\ followPc = "running"
    /\ \E r \in undelivered :
          /\ contactLists[r] \in ContactLists
          /\ undelivered' = undelivered \ {r}
          /\ followed' = followed \o PTagValues(contactLists[r].Tags)
          /\ followFrom' = r
    /\ followPc' = "returned"
    /\ UNCHANGED contactLists

\* The channel is closed, every relay having finished or the ten seconds
\* being over: return followingMsg{following}.
FollowClosed ==
    /\ followPc = "running"
    /\ followPc' = "returned"
    /\ UNCHANGED <<contactLists, undelivered, followed, followFrom>>

FollowRest == <<mergeVars, threadEvents, fetchVars, pubVars, payVars, parseVars, dmVars, renderVars, cacheVars, cmdVars, sessVars, setVars, replyVars>>

NextFollow ==
    \/ FollowSkipNil /\ UNCHANGED FollowRest
    \/ FollowTake /\ UNCHANGED FollowRest
    \/ FollowClosed /\ UNCHANGED FollowRest

InitFollowSpec == InitModel /\ InitFetch /\ InitPublish /\ InitPayDefault /\ InitParseIdle /\ InitDM /\ InitRenderIdle /\ InitCache /\ InitCmd /\ InitSession /\ InitSettings /\ InitReply /\ InitFollow

SpecFollow == InitFollowSpec /\ [][NextFollow]_vars

\* ------------------------------------------------------------------ claims

NoTwoWithSameId(s) == \A i, j \in 1..Len(s) : s[i].ID = s[j].ID => i = j

NonIncreasing(s) == \A i \in 1..(Len(s) - 1) : s[i].CreatedAt >= s[i + 1].CreatedAt

\* C1. Dedup invariant: after any sequence of eventsMsg / dmsMsg /
\* notificationsMsg merges the timeline, DM and notification collections
\* never hold two entries with the same event id.
C1_DedupInvariant ==
    /\ NoTwoWithSameId(events)
    /\ NoTwoWithSameId(dms)
    /\ NoTwoWithSameId(notifications)

\* A merge that brought nothing new into a timeline already holding every
\* event (its message was empty or held known ids only), the other two
\* collections populated as well.
C1_Witness ==
    /\ statusMsg.text = "No new posts"
    /\ Len(events) = MaxId
    /\ Len(dms) >= 2
    /\ Len(notifications) >= 2

\* C2. Idempotent merge, as claimed: whenever a step takes the timeline from
\* C to a merge of some event list E into C, merging E once more gives
\* exactly that collection again, in the same order.
C2_IdempotentMerge ==
    [][\A incoming \in IncomingLists :
          events' \in MergedSlices(events, incoming)
              => MergedSlices(events', incoming) = {events'}]_vars

\* C3. Sort invariant (descending): the timeline, DM and notification
\* sequences are non-increasing in createdAt in every reachable state.
C3_SortInvariant ==
    /\ NonIncreasing(events)
    /\ NonIncreasing(dms)
    /\ NonIncreasing(notifications)

\* Every collection holds events of different timestamps.
C3_Witness ==
    /\ Len(events) >= 2 /\ events[1].CreatedAt > events[Len(events)].CreatedAt
    /\ Len(dms) >= 2 /\ dms[1].CreatedAt > dms[Len(dms)].CreatedAt
    /\ Len(notifications) >= 2
    /\ notifications[1].CreatedAt > notifications[Len(notifications)].CreatedAt

NonDecreasing(s) == \A i \in 1..(Len(s) - 1) : s[i].CreatedAt <= s[i + 1].CreatedAt

\* C4. Sort invariant (thread): the reply sequence fetchThreadCmd delivers,
\* and threadEvents where Update stores it, is non-decreasing in createdAt,
\* whatever order the relays delivered the replies in.
C4_ThreadSortInvariant ==
    /\ NonDecreasing(threadEvents)
    /\ \A i \in 1..Len(inbox) :
          inbox[i].type = "threadEventsMsg" => NonDecreasing(inbox[i].events)

\* A thread stored whose replies the relays delivered newest first.
C4_Witness ==
    /\ fKind = "thread"
    /\ Len(threadEvents) >= 2
    /\ Len(fEvents) >= 2
    /\ fEvents[1].CreatedAt > fEvents[2].CreatedAt

\* The events the relays that responded have delivered, in order.
RECURSIVE EventsDelivered(_, _)
EventsDelivered(sent, responding) ==
    IF sent = <<>> THEN <<>>
    ELSE LET rest == EventsDelivered(Tail(sent), responding)
         IN  IF Head(sent).relay \in responding /\ Head(sent).event # NilEvent
             THEN <<Head(sent).event>> \o rest
             ELSE rest

\* C6. Fetch resilience: whichever relays error on connect, fetchEventsCmd
\* ends with an eventsMsg (never an error) that carries exactly the events
\* the responding relays delivered.
C6_FetchResilience ==
    (fKind = "events" /\ inbox # <<>>) =>
        /\ Head(inbox).type = "eventsMsg"
        /\ Head(inbox).events =
              EventsDelivered(fSent, {r \in DefaultRelays : relayState[r] # "broken"})

\* A fetch with a relay that errored on connect and another that delivered
\* events has returned its message.
C6_Witness ==
    /\ fKind = "events"
    /\ inbox # <<>>
    /\ \E r \in DefaultRelays : relayState[r] = "broken"
    /\ Len(Head(inbox).events) = MaxDeliveries

\* The error of the last failed result the command took off the channel.
RECURSIVE LastObservedError(_)
LastObservedError(results) ==
    IF results = <<>> THEN NoError
    ELSE IF results[Len(results)].error # NoError
         THEN results[Len(results)].error
         ELSE LastObservedError(SubSeq(results, 1, Len(results) - 1))

\* C5. Quorum publish: whatever each relay's outcome, a publish that was
\* fired reports success if and only if at least one relay acknowledged the
\* event; otherwise it reports a failure with a non-empty error, which carries
\* the last observed per-relay error when there is one.
C5_QuorumPublish ==
    pPc = "done" =>
        LET msg == inbox[Len(inbox)]
            acked == \E r \in DefaultRelays : pOutcome[r] = "ok"
        IN  /\ msg.type = "publishSuccessMsg" <=> acked
            /\ ~acked =>
                  /\ msg.type = "errMsg"
                  /\ msg.err.text # ""
                  /\ msg.err.cause = LastObservedError(pResults)

\* Two relays refused or failed and one acknowledged: success is reported.
C5_Witness ==
    /\ pPc = "done"
    /\ Cardinality({r \in DefaultRelays : pOutcome[r] = "ok"}) = 1
    /\ Cardinality({r \in DefaultRelays : pOutcome[r] \in {"rejected", "unreachable"}}) = 2
    /\ inbox[Len(inbox)].type = "publishSuccessMsg"
    /\ lastErr # NoError

\* The event carries a tag (name, value).
HasTag(ev, name, value) ==
    \E i \in 1..Len(ev.tags) :
        /\ Len(ev.tags[i]) >= 2
        /\ ev.tags[i][1] = name
        /\ ev.tags[i][2] = value

\* The e-tag or the p-tag of the event points at the request.
Matches(ev) == ~ev.nil /\ (HasTag(ev, "e", RequestId) \/ HasTag(ev, "p", OurPubKey))

\* C7. Correlation matching: while PayInvoice waits, a received event with
\* an e-tag equal to the request id is matched whatever its p-tags are, an
\* event with a p-tag equal to the requester pubkey is matched, and an event
\* with neither (or an empty one) is discarded: the call goes back to waiting
\* with no result, where a later matching event is accepted by the same rule.
C7_CorrelationMatching ==
    [][(pc = "received" /\ pc' # "received") =>
          /\ (~event.nil /\ HasTag(event, "e", RequestId)) => pc' = "done"
          /\ (~event.nil /\ HasTag(event, "p", OurPubKey)) => pc' = "done"
          /\ ~Matches(event) => (pc' = "waiting" /\ result' = Pending)
      ]_vars

\* A second event, matched by its e-tag although its p-tag names another key,
\* resolved the call after a first event had been discarded.
C7_Witness ==
    /\ pc = "done"
    /\ eventCount = 2
    /\ HasTag(event, "e", RequestId)
    /\ ~HasTag(event, "p", OurPubKey)
    /\ HasTag(event, "p", RequestId)
    /\ result = Succeeded

\* C8. Subscribe before publish: whenever the request has been handed to
\* PublishMany, the subscription had been opened before and at least the
\* settle delay lies between the two.
C8_SubscribeBeforePublish ==
    pubTime # NoTime => (subTime # NoTime /\ pubTime >= subTime + SettleDelay)

\* The request was published exactly one settle delay after the subscription.
C8_Witness ==
    /\ pubTime # NoTime
    /\ published
    /\ pubTime = subTime + SettleDelay

\* PayInvoice returned the timeout error.
TimedOut == pc = "done" /\ result.reason = "timeout waiting for wallet response (30s)"

\* C9 as stated. Timeout determinism: once the subscription is open and no
\* matching event has been received, PayInvoice ends only in the timeout
\* failure and not before the deadline.
C9_TimeoutWheneverNoMatch ==
    (pc = "done" /\ subTime # NoTime /\ ~Matches(event)) =>
        (TimedOut /\ now >= deadline)

\* C9, amended. Once the request has been published, and the caller does not
\* cancel the context, a call that receives no matching event ends only in
\* the timeout failure, not before the deadline, and it does end once the
\* deadline has elapsed.
C9_TimeoutDeterminism ==
    /\ []((pc = "done" /\ published /\ ~Matches(event)) => TimedOut)
    /\ []((TimedOut /\ ~parentDone) => now >= deadline)
    /\ ((published /\ pc # "done" /\ now >= deadline) ~> pc = "done")

\* The call timed out at the deadline after the channel was closed and only
\* empty events came.
C9_Witness ==
    /\ TimedOut
    /\ published
    /\ ~parentDone
    /\ chClosed
    /\ eventCount = MaxEvents
    /\ now = deadline

\* C10. First match decides: every event after which the call goes on waiting
\* was not a match, the first match ends the call and nothing is received
\* after it; the result is Failed with the wallet's code and message when the
\* decrypted payload carries an error (the error field is looked at first),
\* and Succeeded when it carries a result and no error.
C10_FirstMatchDecides ==
    /\ [][(pc = "received" /\ pc' = "waiting") => ~Matches(event)]_vars
    /\ [][pc = "done" => (event' = event /\ eventCount' = eventCount /\ result' = result)]_vars
    /\ []((pc = "done" /\ Matches(event) /\ event.content.decrypts /\ event.content.parses) =>
            /\ event.content.error # NoWalletError =>
                  result = Failed("wallet error", event.content.error)
            /\ (event.content.error = NoWalletError /\ event.content.result) =>
                  result = Succeeded)

\* After a discarded event, a matching response with both an error and a
\* result ended the call with the wallet's error.
C10_Witness ==
    /\ pc = "done"
    /\ eventCount = 2
    /\ Matches(event)
    /\ event.content.error \in WalletErrors
    /\ event.content.result
    /\ result = Failed("wallet error", event.content.error)

\* The error of a request that no relay accepted.
PublishFailure == Failed("failed to publish request to wallet relay", NoWalletError)

\* C11. Publish failure goes directly to Failed: once PublishMany has been
\* called and no relay accepted the request, PayInvoice has returned the
\* publish-failure error, without entering the matching loop and without
\* having received any response event.
C11_PublishFailureDirect ==
    (pubTime # NoTime /\ ~published) =>
        /\ pc = "done"
        /\ result = PublishFailure
        /\ eventCount = 0
        /\ event = NilRelayEvent

\* The request was refused before the deadline, after the channel had
\* already been closed, and the call is over.
C11_Witness ==
    /\ pubTime # NoTime
    /\ ~published
    /\ result = PublishFailure
    /\ chClosed
    /\ now < deadline

\* C12, as claimed. Deadline expiry is always a timeout failure: a call that
\* had opened its subscription and ended in a failure at or after the
\* deadline ended in the timeout failure, never in a publish failure or a
\* wallet error.
C12_ExpiryIsTimeout ==
    (pc = "done" /\ subTime # NoTime /\ now >= deadline /\ ~result.ok) => TimedOut

\* The decoded values of the key among the query's well-formed pairs, by
\* position in the query.
FirstParameter(u, key) ==
    LET idx == {i \in 1..Len(u.query) :
                    u.query[i][1] = key /\ QueryUnescape(u.query[i][2]).ok}
    IN  IF idx = {} THEN ""
        ELSE QueryUnescape(u.query[CHOOSE i \in idx : \A j \in idx : i <= j][2]).text

\* The connection string has the scheme prefix, parses, and names a wallet
\* pubkey, a relay and a secret.
WellFormed(u) ==
    /\ u.start = "nostr+walletconnect://"
    /\ u.parses
    /\ u.host # ""
    /\ FirstParameter(u, "relay") # ""
    /\ FirstParameter(u, "secret") # ""

\* C13. Malformed payment descriptors are rejected before any network
\* activity: ParseNWCString returns an error and empty fields when the prefix
\* is missing or any of wallet pubkey, relay, secret is empty, NewNWCClient
\* then returns no client and nothing has been subscribed or published; for a
\* well-formed URI the fields are the URI's host, relay parameter and secret
\* parameter.
C13_MalformedDescriptorRejected ==
    /\ (parseOut # NotCalledParse /\ ~WellFormed(uri)) =>
          /\ parseOut.err # ""
          /\ parseOut.walletPubkey = "" /\ parseOut.relay = "" /\ parseOut.secret = ""
    /\ (clientOut # NotCalledClient /\ ~WellFormed(uri)) =>
          /\ clientOut.err # ""
          /\ clientOut.client = NoClient
          /\ subTime = NoTime /\ pubTime = NoTime
    /\ (parseOut # NotCalledParse /\ WellFormed(uri)) =>
          /\ parseOut.err = ""
          /\ parseOut.walletPubkey = uri.host
          /\ parseOut.relay = FirstParameter(uri, "relay")
          /\ parseOut.secret = FirstParameter(uri, "secret")

\* A URI with the prefix and a host whose only relay parameter has a broken
\* escape was rejected by both functions.
C13_Witness ==
    /\ uri.start = "nostr+walletconnect://" /\ uri.parses /\ uri.host # ""
    /\ uri.query = <<<<"relay", "%zz">>, <<"secret", "nsec1x">>>>
    /\ parseOut.err = "missing required parameters (pubkey, relay, or secret)"
    /\ clientOut.client = NoClient /\ clientOut.err # "" /\ clientOut.err # "not called"

\* The stored secret is the encoding of a private key.
ValidKeyEncoding(s) == s = "nsec1key"

\* C14, as claimed. Malformed key is rejected as an error value before any
\* I/O: with a stored secret that is not a valid private-key encoding,
\* PayInvoice never panics and never opens the subscription or publishes.
C14_MalformedKeyRejected ==
    ~ValidKeyEncoding(secret) =>
        /\ result # Panicked
        /\ subTime = NoTime
        /\ pubTime = NoTime

\* C15. No automatic retry: PayInvoice calls PublishMany at most once, and
\* once it has returned it publishes nothing more, receives nothing more and
\* keeps its result.
C15_NoAutomaticRetry ==
    /\ [](publishCalls <= 1)
    /\ [][pc = "done" =>
            /\ pc' = "done"
            /\ publishCalls' = publishCalls
            /\ eventCount' = eventCount
            /\ result' = result]_vars

\* The one publish was refused and the call is over, with time left before
\* the deadline in which a retry could have been made.
C15_Witness ==
    /\ pc = "done"
    /\ publishCalls = 1
    /\ result = PublishFailure
    /\ ~chClosed
    /\ now + 1 < deadline

\* C16. SendDM envelope selection: with an nsec and its private key a
\* publishDMCmd whose envelopes were built publishes exactly two gift wraps of
\* the same rumor, the first addressed to the recipient and the second to the
\* sender's own pubkey; with any other capability it publishes exactly one
\* legacy kind 4 event tagged with the recipient. A command that failed to
\* build its envelopes has published nothing.
C16_EnvelopeSelection ==
    LET modern == dArgs.authMethod = "nsec" /\ dArgs.privKey # ""
        built == dPc = "done" /\ (dSent # <<>> \/ inbox[Len(inbox)].err.cause.reason # "crypto")
    IN  /\ (dPc = "done" /\ ~built) => dSent = <<>>
        /\ (built /\ modern) =>
              /\ Len(dSent) = 2
              /\ dSent[1].kind = 1059 /\ dSent[2].kind = 1059
              /\ dSent[1].p = dArgs.recipientPubKey
              /\ dSent[2].p = OwnPubKey
              /\ dSent[1].rumor = dSent[2].rumor
              /\ dSent[1].rumor.kind = 14
              /\ dSent[1].rumor.content = dArgs.content
              /\ dSent[1].rumor.p = dArgs.recipientPubKey
        /\ (built /\ ~modern) =>
              /\ Len(dSent) = 1
              /\ dSent[1].kind = 4
              /\ dSent[1].p = dArgs.recipientPubKey

\* A modern DM to another user went out in two gift wraps although only the
\* copy to the sender's own pubkey was accepted by a relay.
C16_Witness ==
    /\ dPc = "done"
    /\ dArgs.authMethod = "nsec" /\ dArgs.privKey = "sk" /\ dArgs.recipientPubKey = "alice"
    /\ Len(dSent) = 2
    /\ dSuccessCount = 1
    /\ dLastErr # NoError
    /\ inbox[Len(inbox)].type = "publishSuccessMsg"

\* The counterparty of a legacy event as the claim names it: the value of the
\* first p tag when the viewer is the author, the author otherwise.
Counterparty(evt) ==
    IF evt.pubkey = OwnPubKey
    THEN LET idx == {i \in 1..Len(evt.tags) : Len(evt.tags[i]) >= 2 /\ evt.tags[i][1] = "p"}
         IN  IF idx = {} THEN "" ELSE evt.tags[CHOOSE i \in idx : \A j \in idx : i <= j][2]
    ELSE evt.pubkey

\* C17. ReceiveDM dispatch: what is shown depends on the kind alone; a kind 4
\* event with a counterparty is decrypted under the key shared with the first
\* recipient p tag when the viewer is the author and with the author
\* otherwise; a kind 1059 event is unwrapped and shows the rumor's content;
\* an event of any other kind shows its content untouched.
C17_ReceiveDispatch ==
    rendered # <<>> =>
        \A i \in 1..Len(viewEvents) :
            LET evt == viewEvents[i]
            IN  /\ (evt.kind = 4 /\ Counterparty(evt) # "") =>
                      rendered[i] =
                          IF DecryptDM(viewer, evt.content, Counterparty(evt)).ok
                          THEN ShowPlain(evt.content.plain)
                          ELSE ShowError("NIP-04 Encrypted - Decrypt error")
                /\ evt.kind = 1059 =>
                      rendered[i] =
                          IF UnwrapGiftWrapDM(viewer, evt).ok
                          THEN ShowPlain(evt.content.plain)
                          ELSE ShowError("NIP-17 Gift-wrap - Unwrap error")
                /\ evt.kind \notin {4, 1059} => rendered[i] = ShowContent(evt.content)

\* The viewer's own legacy DM, whose second p tag but not its first names the
\* key it decrypts under, is shown as an error next to a received DM that is
\* shown decrypted.
C17_Witness ==
    /\ Len(rendered) = 2
    /\ viewEvents[1].kind = 4 /\ viewEvents[1].pubkey = OwnPubKey
    /\ viewEvents[1].tags = <<<<"p", "bob">>, <<"p", "alice">>>>
    /\ viewEvents[1].content.with = "alice"
    /\ rendered[1].form = "placeholder"
    /\ viewEvents[2].kind = 4 /\ viewEvents[2].pubkey = "alice"
    /\ rendered[2].form = "plaintext"

\* C18, as claimed. Cryptographic errors are isolated: every kind 4 or kind
\* 1059 event of the collection is shown as its decrypted plaintext or as an
\* error placeholder, never as its raw content, and every event of the
\* collection is rendered.
C18_CryptoErrorsIsolated ==
    rendered # <<>> =>
        /\ Len(rendered) = Len(viewEvents)
        /\ \A i \in 1..Len(viewEvents) :
              viewEvents[i].kind \in {4, 1059} => rendered[i].form \in {"plaintext", "placeholder"}

\* C19, as claimed. Single-writer policy: the profile cache changes only in
\* the step in which the update loop handles a profilesMsg, never while the
\* loop is idle or is rendering, and the process is never ended by
\* unsynchronised accesses to the cache.
C19_SingleWriter ==
    /\ [][userCache' # userCache => uiPc = "update" /\ uiPc' = "idle"]_vars
    /\ [](~crashed)

\* C20, as claimed. Every background operation reports a terminal result: a
\* started command always comes to its end, every command that has ended has
\* handed exactly one result message to the update loop, also when a relay
\* operation panicked inside it, and no panic leaves a command.
C20_TerminalResult ==
    /\ [](~cmdCrashed)
    /\ [](cmd.pc \in {"idle", "finished"} => Len(delivered) = cmd.started)
    /\ (cmd.pc = "running" ~> cmd.pc = "finished")

\* Events of equal createdAt stand in the order of their ids.
TiesById(s) ==
    \A i, j \in 1..Len(s) : (i < j /\ s[i].CreatedAt = s[j].CreatedAt) => s[i].ID < s[j].ID

\* C21, as claimed. Merge is deterministic: events of equal createdAt stand in
\* the order of their ids, and a merge of an event list into the timeline has
\* one possible result.
C21_DeterministicMerge ==
    /\ [](TiesById(events))
    /\ [][\A incoming \in IncomingLists :
             events' \in MergedSlices(events, incoming)
                 => MergedSlices(events, incoming) = {events'}]_vars

IdsOf(s) == {s[i].ID : i \in 1..Len(s)}

\* The counts a merge that took a collection from before to after must
\* report.
CountsRight(before, after) ==
    /\ statusMsg'.new = Cardinality(IdsOf(after) \ IdsOf(before))
    /\ statusMsg'.total = Cardinality(IdsOf(after) \cup IdsOf(before))

\* C22. Merge counts: every merge reports as new the number of distinct ids
\* that came with the message and were not in the collection, and as total
\* the number of distinct ids of the two together.
C22_MergeCounts ==
    [][/\ statusMsg'.text \in {"Loaded new posts", "No new posts"}
             => CountsRight(events, events')
       /\ statusMsg'.text \in {"Loaded new DMs", "No new DMs"}
             => CountsRight(dms, dms')
       /\ statusMsg'.text \in {"Loaded new notifications", "No new notifications"}
             => CountsRight(notifications, notifications')]_vars

\* A message of at most two events brought one new id into a timeline that
\* held two: its other event was known already or was the same event again.
C22_Witness ==
    /\ statusMsg = MergeStatus("posts", 1, 3)
    /\ Len(events) = 3

\* The greatest createdAt of a collection, 0 for the empty one.
MaxCreatedAt(s) ==
    IF s = <<>> THEN 0
    ELSE CHOOSE t \in {s[i].CreatedAt : i \in 1..Len(s)} :
            \A i \in 1..Len(s) : s[i].CreatedAt <= t

\* C23. Latest-timestamp tracking: after every merge the latest timestamp of
\* a collection is the greatest createdAt of the events merged into it, and
\* it never decreases.
C23_LatestTimestamp ==
    /\ [](/\ lastEventTime = MaxCreatedAt(events)
          /\ lastDMTime = MaxCreatedAt(dms)
          /\ lastNotifTime = MaxCreatedAt(notifications))
    /\ [][/\ lastEventTime' >= lastEventTime
          /\ lastDMTime' >= lastDMTime
          /\ lastNotifTime' >= lastNotifTime]_vars

\* Older events were merged after the newest one into every collection.
C23_Witness ==
    /\ lastEventTime = 1 /\ Len(events) = MaxId /\ statusMsg.new > 0
    /\ lastDMTime = 1 /\ Len(dms) >= 2
    /\ lastNotifTime = 1 /\ Len(notifications) >= 2

\* C24. Publish drains every acknowledgement before deciding: when the
\* command emits its message it has taken the result of every relay that
\* gives one off the channel, once each, and it reports no failure while a
\* relay that acknowledges is outstanding.
C24_DrainBeforeDeciding ==
    pPc = "done" =>
        LET answering == {r \in DefaultRelays : pOutcome[r] # "none"}
        IN  /\ pPending = {}
            /\ {pResults[i].relay : i \in 1..Len(pResults)} = answering
            /\ Len(pResults) = Cardinality(answering)
            /\ inbox[Len(inbox)].type = "errMsg" =>
                  ~\E r \in pPending : pOutcome[r] = "ok"

\* The first two results were failures and the acknowledgement came last:
\* the command waited for it and reports success.
C24_Witness ==
    /\ pPc = "done"
    /\ Len(pResults) = 3
    /\ pResults[1].error # NoError /\ pResults[2].error # NoError
    /\ pResults[3].error = NoError
    /\ inbox[Len(inbox)].type = "publishSuccessMsg"

\* C25. A failed operation is fatal to that operation only: when a publish,
\* repost, quote or DM command answers with an error, the session keeps its
\* state and does not go into the error state, and the timeline, DM and
\* notification collections, the cursor and the current view are unchanged.
C25_FailureKeepsSession ==
    [][lastMsg' = "errMsg" =>
          /\ state' = state
          /\ state' # "error"
          /\ UNCHANGED <<events, dms, notifications, cursor, currentView>>]_vars

\* C26. Signing goes through the selected capability only: under nsec
\* authentication every event the client publishes (post, reply, repost, quote,
\* DM) is signed with the private key and the Pleb Signer is never called;
\* under Pleb Signer authentication every event is signed by the Pleb Signer.
C26_SelectedSignerOnly ==
    \A c \in lastCmd \cap PublishCommands :
        SignedBy(c, authMethod) = (IF authMethod = "nsec" THEN "private key" ELSE "Pleb Signer")

\* C28. Refresh works in every view: the key 'r' in the Following, DMs or
\* Notifications view starts the fetch command of that view's collection.
C28_RefreshEveryView ==
    [][lastMsg' = "r" =>
          lastCmd' = {IF currentView = "dms" THEN "fetchDMs"
                      ELSE IF currentView = "notifications" THEN "fetchNotifications"
                      ELSE "fetchEvents"}]_vars

\* C30. DMs are never reposted, quoted or opened as a thread: while the DMs
\* view is current the keys 'x', 'X' and 't' return no repost, quote or
\* thread-fetch command and leave the state of the session as it is.
C30_DMsAreLeftAlone ==
    [][(currentView = "dms" /\ lastMsg' \in {"x", "X", "t"}) =>
          /\ lastCmd' = {}
          /\ UNCHANGED <<state, currentView, cursor, composing, replyingTo, threadRoot,
                         running, panicked, SessionData>>]_vars

\* C29. At least one relay is always kept: whatever relays are added and
\* deleted on the settings screen, the relay list is not empty, and a delete
\* on a list of one relay leaves the list as it is.
C29_OneRelayKept ==
    /\ Len(relays) >= 1
    /\ (settingsKey = "d" /\ Len(prevRelays) = 1) => relays = prevRelays

\* A relay was added, the three default relays were deleted, and the delete
\* key was pressed on the one relay left.
C29_Witness ==
    /\ settingsKey = "d"
    /\ prevRelays = << <<"w">> >>
    /\ relays = prevRelays

\* The ancestor of the note at index i that replies to nothing.
RECURSIVE RootOf(_)
RootOf(i) == IF posts[i].replyTo = 0 THEN i ELSE RootOf(posts[i].replyTo)

CarriesTag(note, tag) == \E k \in 1..Len(note.Tags) : note.Tags[k] = tag

\* C31. Reply threading tags: a reply carries a reply-marked e-tag with the
\* id of the note it replies to and a p-tag with its author, and every
\* root-marked e-tag of a reply names the root of the conversation, the
\* ancestor that has no e-tag itself.
C31_ReplyTags ==
    \A i \in 1..Len(posts) :
        posts[i].replyTo # 0 =>
            /\ CarriesTag(posts[i], <<"e", posts[posts[i].replyTo].ID, "", "reply">>)
            /\ CarriesTag(posts[i], <<"p", posts[posts[i].replyTo].PubKey>>)
            /\ \A k \in 1..Len(posts[i].Tags) :
                   (Len(posts[i].Tags[k]) = 4 /\ posts[i].Tags[k][4] = "root") =>
                       /\ posts[i].Tags[k][2] = posts[RootOf(i)].ID
                       /\ FirstETag(posts[RootOf(i)].Tags) = <<>>

\* The contact lists the relays answer with.
Answered == {contactLists[r] : r \in {q \in DefaultRelays : contactLists[q] \in ContactLists}}

\* C32. The following list comes from the latest contact list: when
\* fetchFollowingCmd has taken a contact list, its result holds the p-tag
\* pubkeys of the contact list with the greatest createdAt among those the
\* relays answer with, whatever the order of the answers.
C32_LatestContactList ==
    (followPc = "returned" /\ followFrom # "none") =>
        \A list \in Answered :
            (\A other \in Answered : other.CreatedAt <= list.CreatedAt) =>
                followed = PTagValues(list.Tags)

\* C33. The cursor stays a valid index: after any keys and result messages
\* it is not negative, and it is smaller than the length of the current
\* view's collection whenever that collection is not empty.
C33_CursorInRange ==
    /\ cursor >= 0
    /\ Len(GetCurrentEvents) > 0 => cursor < Len(GetCurrentEvents)

\* C34. Thread replies belong to the displayed root: in the thread state
\* every event of threadEvents carries an e tag with the id of threadRoot,
\* also when a thread is left and another one opened while the fetch of the
\* first has not yet answered.
C34_RepliesOfRoot ==
    state = "thread" =>
        \A k \in 1..Len(threadEvents) : threadEvents[k].e = threadRoot.ID

\* C35. The compose target is stable: while a reply, a quote or a DM is
\* composed, replyingTo is the event that was selected (not nil), whatever
\* result message of an earlier command arrives in between, so a reply or a
\* quote is never submitted without its target.
C35_ComposeTarget ==
    (state = "composing" /\ composing \in {"reply", "quote", "dm"}) =>
        replyingTo # NoEvent

\* C36. Nothing is published before authentication: Update returns no
\* publish, repost, quote or DM command while pubKey is empty, and the
\* composing state is entered from the timeline and thread states only.
C36_AuthenticatedFirst ==
    [][/\ pubKey' = "" => lastCmd' \cap PublishCommands = {}
       /\ (state' = "composing" /\ state # "composing") =>
              state \in {"timeline", "thread"}]_vars

\* C37. Collections only grow: every event id in the timeline, DM or
\* notification collection before a merge message is in it afterwards, and
\* no key and no other message (view switch, thread exit, error, publish
\* result) takes an event out of these collections.
C37_CollectionsGrow ==
    [][/\ IdsOf(events) \subseteq IdsOf(events')
       /\ IdsOf(dms) \subseteq IdsOf(dms')
       /\ IdsOf(notifications) \subseteq IdsOf(notifications')]_vars

\* A timeline fetched again has been merged into a timeline that held
\* events already.
C37_Witness ==
    /\ lastMsg = "eventsMsg"
    /\ statusMsg.text = "No new posts"
    /\ Len(events) > 0

\* C38. A gift-wrap DM reported as sent reached the recipient's copy: in nsec
\* mode publishDMCmd returns its success message only if a relay accepted
\* the gift wrap addressed to the recipient; relays accepting the sender's
\* own copy alone give no success message.
C38_RecipientCopyAccepted ==
    (/\ dPc = "done"
     /\ dArgs.authMethod = "nsec" /\ dArgs.privKey # ""
     /\ inbox[Len(inbox)].type = "publishSuccessMsg") =>
        /\ dSent[1].p = dArgs.recipientPubKey
        /\ dAcked[1] # {}

\* A matched response that does not decrypt, does not parse, or carries
\* neither an error nor a result.
Unusable(content) ==
    \/ ~content.decrypts
    \/ ~content.parses
    \/ content.error = NoWalletError /\ ~content.result

\* C39. PayInvoice reports success only for a matched response whose payload
\* decrypts, parses, has no error field and has a result field; a matched
\* response that fails to decrypt, fails to parse or carries neither error
\* nor result ends the call in failure at once, and no further event is
\* waited for.
C39_SuccessNeedsResult ==
    /\ [](result = Succeeded =>
            /\ pc = "done"
            /\ Matches(event)
            /\ event.content.decrypts
            /\ event.content.parses
            /\ event.content.error = NoWalletError
            /\ event.content.result)
    /\ [][(pc = "received" /\ Matches(event) /\ Unusable(event.content)) =>
            /\ pc' = "done"
            /\ ~result'.ok
            /\ result'.reason \in {"failed to decrypt response", "failed to parse response",
                                   "no result in response"}
            /\ eventCount' = eventCount]_vars

\* A matched response that decrypted and parsed and carried neither an error
\* nor a result has ended the call with "no result in response".
C39_Witness ==
    /\ pc = "done"
    /\ Matches(event)
    /\ event.content.decrypts /\ event.content.parses
    /\ event.content.error = NoWalletError /\ ~event.content.result
    /\ result = Failed("no result in response", NoWalletError)

====
